---- MODULE Spec2Model ----
(***************************************************************************)
(* Model of the virtual fashion storefront's session subsystem:            *)
(*   - VirtualExperienceEngine   (src/src/modules/experience-engine.ts)    *)
(*   - InMemorySessionManager    (src/unnamed/part_002, lines 1-118)       *)
(*   - FashionAnalyticsTracker   (src/unnamed/part_002, lines 120-348)     *)
(*   - FashionProductCatalog     (src/src/modules/product-catalog.ts)      *)
(*   - FashionShoppingSystem     (src/src/lib/system.ts)                   *)
(*                                                                         *)
(* Abstractions.  A Product object is represented by its id; the catalog   *)
(* maps an id to the fields the subsystem reads.  An absent (undefined)    *)
(* or empty-string productId is the single falsy value NoProduct, since    *)
(* the code only ever tests it with `!event.productId`.  Event metadata is *)
(* represented by its `category` entry, the only one that is read.         *)
(* generateSessionId (timestamp + random suffix) is a fresh serial number  *)
(* per store, with the store's own prefix.  Date.now() is the clock `now`, *)
(* in milliseconds, read once per handler.                                 *)
(***************************************************************************)
EXTENDS Integers, Sequences, FiniteSets, TLC

\* ------------------------------------------------------------------ bounds
MaxSessions == 2        \* identifiers each store generates
MaxCalls == 3           \* calls made on a session identifier
MaxTicks == 2           \* clock steps
MaxLogged == 5          \* events logged in all sessions together
MaxPosts == 6           \* requests the contact endpoint receives
MaxWait == 4            \* thirds of the rate-limit window that pass
MaxMs == 3              \* single milliseconds that pass

\* --------------------------------------------------------------- constants
\* experience-engine.ts:241 and part_002:69: 24 * 60 * 60 * 1000
MaxAge == 24 * 60 * 60 * 1000

NoProduct == ""
NoCategory == ""

\* SAMPLE_PRODUCTS: id, brand, category, price and tags of the four catalog
\* entries.
SAMPLE_PRODUCTS ==
  << [id |-> "prod_001", brand |-> "Luna Atelier", category |-> "clothing", price |-> 450,
      tags |-> <<"silk", "dress", "evening", "luxury", "sustainable">>],
     [id |-> "prod_002", brand |-> "Forma Studio", category |-> "clothing", price |-> 680,
      tags |-> <<"blazer", "structured", "professional", "innovative">>],
     [id |-> "prod_003", brand |-> "Essence", category |-> "bags", price |-> 320,
      tags |-> <<"leather", "minimalist", "handbag", "versatile">>],
     [id |-> "prod_004", brand |-> "Kinetic", category |-> "shoes", price |-> 520,
      tags |-> <<"heels", "sculptural", "art", "statement">>] >>

CatalogIds == {SAMPLE_PRODUCTS[i].id : i \in 1..Len(SAMPLE_PRODUCTS)}

\* FashionProductCatalog.getProduct: the product's id, or NoProduct for null.
GetProduct(id) == IF id \in CatalogIds THEN id ELSE NoProduct

CategoryOf(id) ==
  LET i == CHOOSE j \in 1..Len(SAMPLE_PRODUCTS) : SAMPLE_PRODUCTS[j].id = id
  IN SAMPLE_PRODUCTS[i].category

EventTypes == {"view", "like", "add-to-cart", "try-virtual", "share"}
ExperienceModes == {"browse", "detailed", "virtual-try", "checkout"}

\* Identifiers: `session_<ts>_<rnd>` (engine) and `sess_<ts>_<rnd>` (store).
EngineId(n) == <<"session", n>>
StoreId(n) == <<"sess", n>>
EngineIds == {EngineId(n) : n \in 1..(MaxSessions + 1)}
StoreIds == {StoreId(n) : n \in 1..(MaxSessions + 1)}

\* ------------------------------------------------------------------ inputs
\* Product ids a caller passes in an event: two products, and no id at all.
EventProductIds == {"prod_001", "prod_004", NoProduct}

VARIABLES
  now,          \* Date.now()
  sessions,     \* VirtualExperienceEngine.sessions
  engineSeq,    \* identifiers the engine has generated
  store,        \* InMemorySessionManager.sessions
  storeSeq,     \* identifiers the session manager has generated
  trackerEvents,\* FashionAnalyticsTracker.events
  systemStats,  \* FashionAnalyticsTracker.systemStats
  calls,        \* calls made so far on a session identifier
  call,         \* the last call made and its outcome
  submissions,  \* app/api/contact/route.ts: submissions (ip -> admission times)
  admitted,     \* every admission of the contact endpoint so far, as <<ip, time>>
  pending       \* the orchestrator calls in flight, each before its next await

engineVars == <<sessions, engineSeq>>
storeVars == <<store, storeSeq>>
trackerVars == <<trackerEvents, systemStats>>
requestVars == <<submissions, admitted, pending>>
vars == <<now, engineVars, storeVars, trackerVars, calls, call, requestVars>>

\* ------------------------------------------------------------------ helpers
Includes(seq, x) == \E i \in 1..Len(seq) : seq[i] = x

IsPrefix(s, t) == Len(s) <= Len(t) /\ \A i \in 1..Len(s) : s[i] = t[i]

Outcome(op, sid, status, value) ==
  [op |-> op, sid |-> sid, status |-> status, value |-> value]

\* The outcome of an orchestrator method, with the calls it made on the
\* modules, in the order in which it made them.
Performed(op, sid, status, value, steps) ==
  [op |-> op, sid |-> sid, status |-> status, value |-> value, steps |-> steps]

\* The clock advances by a little more than half the expiry age at a time.
TickStep == MaxAge \div 2 + 1

TicksTaken == now \div TickStep

\* ------------------------------------------------------- Experience Engine
\* createSession: the initial stored state.
InitialState(sessionId, t) ==
  [ sessionId |-> sessionId,
    currentProduct |-> NoProduct,
    viewedProducts |-> <<>>,
    favorites |-> <<>>,
    cartItems |-> <<>>,
    experienceMode |-> "browse",
    timestamp |-> t,
    events |-> <<>> ]

NewItem(productId, t) ==
  [productId |-> productId, quantity |-> 1, selectedOptions |-> "{}", addedAt |-> t]

HasItem(cartItems, productId) ==
  \E i \in 1..Len(cartItems) : cartItems[i].productId = productId

\* Mutant of ApplyView: viewing a product also switches to the detailed mode.
ApplyView_SetsDetailed(session, productId) ==
  IF ~Includes(session.viewedProducts, productId)
  THEN [session EXCEPT !.viewedProducts = Append(@, productId),
                       !.experienceMode = "detailed"]
  ELSE [session EXCEPT !.experienceMode = "detailed"]

\* case 'view'
ApplyView(session, productId) ==
  IF ~Includes(session.viewedProducts, productId)
  THEN [session EXCEPT !.viewedProducts = Append(@, productId)]
  ELSE session

\* Mutant of ApplyLike: the membership test is dropped.
ApplyLike_AlwaysAppends(session, productId) ==
  [session EXCEPT !.favorites = Append(@, productId)]

\* case 'like'
ApplyLike(session, productId) ==
  IF ~Includes(session.favorites, productId)
  THEN [session EXCEPT !.favorites = Append(@, productId)]
  ELSE session

\* Mutant of ApplyAddToCart: an existing entry is found but not incremented.
ApplyAddToCart_NoIncrement(session, productId, t) ==
  IF HasItem(session.cartItems, productId)
  THEN session
  ELSE [session EXCEPT !.cartItems = Append(@, NewItem(productId, t))]

\* case 'add-to-cart'
ApplyAddToCart(session, productId, t) ==
  IF HasItem(session.cartItems, productId)
  THEN [session EXCEPT !.cartItems =
          [i \in 1..Len(@) |-> IF @[i].productId = productId
                               THEN [@[i] EXCEPT !.quantity = @ + 1]
                               ELSE @[i]]]
  ELSE [session EXCEPT !.cartItems = Append(@, NewItem(productId, t))]

\* Mutant of ApplyTryVirtual: currentProduct is not cleared.
ApplyTryVirtual_KeepsProduct(session) ==
  [session EXCEPT !.experienceMode = "virtual-try"]

\* case 'try-virtual'
ApplyTryVirtual(session) ==
  [session EXCEPT !.experienceMode = "virtual-try", !.currentProduct = NoProduct]

\* updateStateFromEvent, applied to the stored session.
UpdateStateFromEvent(session, event, t) ==
  IF event.productId = NoProduct THEN session
  ELSE
    LET updatedSession ==
          CASE event.type = "view" -> ApplyView(session, event.productId)
            [] event.type = "like" -> ApplyLike(session, event.productId)
            [] event.type = "add-to-cart" -> ApplyAddToCart(session, event.productId, t)
            [] event.type = "try-virtual" -> ApplyTryVirtual(session)
            [] OTHER -> session
    IN [updatedSession EXCEPT !.timestamp = t]

\* recordEvent on a stored session: push the event, stamp, then handleEvent.
RecordedSession(session, event, t) ==
  UpdateStateFromEvent(
    [session EXCEPT !.events = Append(@, event), !.timestamp = t], event, t)

\* Mutant of UpdatedSession: the timestamp of the spread is kept.
UpdatedSession_TimestampFromUpdates(session, updates, t) ==
  LET spread == updates @@ session
      Field(f) == IF f \in DOMAIN updates THEN updates[f] ELSE session[f]
  IN [spread EXCEPT !.viewedProducts = Field("viewedProducts"),
                    !.favorites = Field("favorites"),
                    !.cartItems = Field("cartItems"),
                    !.timestamp = Field("timestamp"),
                    !.events = session.events]

\* Mutant of UpdatedSession: the events of the spread are kept.
UpdatedSession_EventsFromUpdates(session, updates, t) ==
  LET spread == updates @@ session
      Field(f) == IF f \in DOMAIN updates THEN updates[f] ELSE session[f]
  IN [spread EXCEPT !.viewedProducts = Field("viewedProducts"),
                    !.favorites = Field("favorites"),
                    !.cartItems = Field("cartItems"),
                    !.timestamp = t]

\* updateState on a stored session: { ...session, ...updates, <overrides> }.
UpdatedSession(session, updates, t) ==
  LET spread == updates @@ session
      Field(f) == IF f \in DOMAIN updates THEN updates[f] ELSE session[f]
  IN [spread EXCEPT !.viewedProducts = Field("viewedProducts"),
                    !.favorites = Field("favorites"),
                    !.cartItems = Field("cartItems"),
                    !.timestamp = t,
                    !.events = session.events]

\* getState: the stored state without its events.
CleanState(session) ==
  [f \in (DOMAIN session) \ {"events"} |-> session[f]]

\* generatePersonalization: categories of the logged `view` events, in the
\* order in which the Map first saw them.
ViewedCategoryOrder(events) ==
  LET RECURSIVE Seen(_)
      Seen(n) ==
        IF n = 0 THEN <<>>
        ELSE LET e == events[n]
                 before == Seen(n - 1)
             IN IF e.type = "view" /\ e.metadata.category # NoCategory
                   /\ ~Includes(before, e.metadata.category)
                THEN Append(before, e.metadata.category)
                ELSE before
  IN Seen(Len(events))

ViewedCategoryCount(events, c) ==
  Cardinality({i \in 1..Len(events) :
                 events[i].type = "view" /\ events[i].metadata.category = c})

\* Mutant of SortByCountDesc: the entries stay in insertion order.
SortByCountDesc_Unsorted(keys, events) == keys

\* Array.prototype.sort with (a, b) => b - a on the counts: a stable sort, so
\* an entry moves in front of exactly the entries with a smaller count and of
\* the earlier entries with the same count it follows.
SortByCountDesc(keys, events) ==
  LET n == Len(keys)
      Count(c) == ViewedCategoryCount(events, c)
      Rank(i) == Cardinality({j \in 1..n :
                    \/ Count(keys[j]) > Count(keys[i])
                    \/ Count(keys[j]) = Count(keys[i]) /\ j < i})
  IN [r \in 1..n |-> keys[CHOOSE i \in 1..n : Rank(i) = r - 1]]

Slice(seq, n) == IF Len(seq) <= n THEN seq ELSE SubSeq(seq, 1, n)

GetRecommendedProductIds(session) == Slice(session.favorites, 4)

\* Mutant of GetSuggestedExperiences: five viewed products are enough.
GetSuggestedExperiences_AtFive(session) ==
  (IF Len(session.favorites) > 0 THEN <<"virtual-styling">> ELSE <<>>)
  \o (IF Len(session.cartItems) > 0 THEN <<"complete-the-look">> ELSE <<>>)
  \o (IF Len(session.viewedProducts) >= 5 THEN <<"personalized-collection">> ELSE <<>>)

GetSuggestedExperiences(session) ==
  (IF Len(session.favorites) > 0 THEN <<"virtual-styling">> ELSE <<>>)
  \o (IF Len(session.cartItems) > 0 THEN <<"complete-the-look">> ELSE <<>>)
  \o (IF Len(session.viewedProducts) > 5 THEN <<"personalized-collection">> ELSE <<>>)

GeneratePersonalization(session) ==
  [ recommendedProducts |-> GetRecommendedProductIds(session),
    preferredCategories |->
      Slice(SortByCountDesc(ViewedCategoryOrder(session.events), session.events), 3),
    suggestedExperiences |-> GetSuggestedExperiences(session) ]

\* cleanExpiredSessions(maxAge): the sessions that stay.
Unexpired(maxAge, t) == {k \in DOMAIN sessions : ~(t - sessions[k].timestamp > maxAge)}

\* recordEvent / updateState on the engine's map, for a stored identifier.
EngineRecordEvent(sessionId, event, t) ==
  [sessions EXCEPT ![sessionId] = RecordedSession(@, event, t)]

EngineUpdateState(map, sessionId, updates, t) ==
  [map EXCEPT ![sessionId] = UpdatedSession(@, updates, t)]

\* --------------------------------------------------------- Session Manager
\* create: the stored SessionData.
SessionData(sessionId, t) ==
  [id |-> sessionId, createdAt |-> t, lastActivity |-> t, preferences |-> "{}"]

\* --------------------------------------------------------- Analytics Tracker
AnalyticsEvent(type, sessionId, t, productId, category) ==
  [ type |-> type, sessionId |-> sessionId, timestamp |-> t,
    data |-> [productId |-> productId, category |-> category] ]

\* A JavaScript Map as the sequence of its entries, in insertion order.
MapHas(map, key) == \E i \in 1..Len(map) : map[i].key = key

MapGet(map, key) == map[CHOOSE i \in 1..Len(map) : map[i].key = key].value

MapSet(map, key, value) ==
  IF MapHas(map, key)
  THEN [i \in 1..Len(map) |-> IF map[i].key = key THEN [map[i] EXCEPT !.value = value]
                              ELSE map[i]]
  ELSE Append(map, [key |-> key, value |-> value])

\* (map.get(key) || 0) + 1
Incremented(map, key) == MapSet(map, key, (IF MapHas(map, key) THEN MapGet(map, key) ELSE 0) + 1)

InitialStats ==
  [totalEvents |-> 0, activeUsers |-> {}, productViews |-> <<>>, categoryViews |-> <<>>]

UpdateSystemStats(stats, event) ==
  [ totalEvents |-> stats.totalEvents + 1,
    activeUsers |-> stats.activeUsers \cup {event.sessionId},
    productViews |->
      IF event.type = "product_view" /\ event.data.productId # NoProduct
      THEN Incremented(stats.productViews, event.data.productId)
      ELSE stats.productViews,
    categoryViews |->
      IF event.type = "category_view" /\ event.data.category # NoCategory
      THEN Incremented(stats.categoryViews, event.data.category)
      ELSE stats.categoryViews ]

\* track: the per-session logs after the event is pushed.
TrackedEvents(event) ==
  LET sessionEvents == IF event.sessionId \in DOMAIN trackerEvents
                       THEN trackerEvents[event.sessionId] ELSE <<>>
  IN (event.sessionId :> Append(sessionEvents, event)) @@ trackerEvents

Track(event) ==
  /\ trackerEvents' = TrackedEvents(event)
  /\ systemStats' = UpdateSystemStats(systemStats, event)

\* ------------------------------------------------------------ call inputs
Event(type, productId, t) ==
  [ type |-> type, productId |-> productId, timestamp |-> t,
    metadata |-> [category |-> IF type = "view" /\ productId \in CatalogIds
                               THEN CategoryOf(productId) ELSE NoCategory] ]

\* Events a caller records: every type, with each product id and with none.
EventInputs(t) == { Event(ty, p, t) : ty \in EventTypes, p \in EventProductIds }

\* A smaller choice of events: one of each type, one without a product id.
FewEventInputs(t) ==
  { Event("like", "prod_001", t), Event("add-to-cart", "prod_001", t),
    Event("view", "prod_004", t), Event("share", "prod_001", t),
    Event("try-virtual", NoProduct, t) }

\* Arrays a caller supplies: empty, duplicate-free, and with a repeated id.
ArrayInputs == { <<>>, <<"prod_004", "prod_001">>, <<"prod_001", "prod_001">> }

\* Cart arrays a caller supplies: one entry, and two entries for one product.
CartInputs(t) ==
  { << [NewItem("prod_001", t) EXCEPT !.quantity = 2] >>,
    << NewItem("prod_001", t), NewItem("prod_001", t) >> }

\* Partial<ExperienceState> objects that carry no array: the one of
\* startVirtualTryOn, and one that leaves the mode alone.
ScalarPartials ==
  { [experienceMode |-> "virtual-try", currentProduct |-> "prod_004"],
    [currentProduct |-> "prod_001"] }

\* Partial<ExperienceState> objects a caller passes to updateState: the empty
\* one, and partials for each field (an explicit `currentProduct: undefined`,
\* a timestamp, another session's id, and an `events` entry among them).
Partials(t) ==
  { <<>>,
    [experienceMode |-> "virtual-try", currentProduct |-> "prod_004"],
    [currentProduct |-> NoProduct],
    [viewedProducts |-> <<"prod_001", "prod_001">>],
    [timestamp |-> t + 1],
    [events |-> <<>>],
    [sessionId |-> EngineId(2)] }
  \cup { [favorites |-> a] : a \in ArrayInputs }
  \cup { [cartItems |-> c] : c \in CartInputs(t) }

\* Product ids a caller passes to the orchestrator: a catalog product and an
\* id the catalog does not have.
SystemProductIds == {"prod_001", "prod_999"}

\* ----------------------------------------------------------------- actions
Init ==
  /\ now = 0
  /\ sessions = <<>>
  /\ engineSeq = 0
  /\ store = <<>>
  /\ storeSeq = 0
  /\ trackerEvents = <<>>
  /\ systemStats = InitialStats
  /\ calls = 0
  /\ call = Outcome("init", <<>>, "ok", <<>>)
  /\ submissions = <<>> /\ admitted = <<>> /\ pending = <<>>

\* ---- VirtualExperienceEngine
CreateSession ==
  /\ engineSeq < MaxSessions
  /\ LET sessionId == EngineId(engineSeq + 1)
     IN /\ sessions' = (sessionId :> InitialState(sessionId, now)) @@ sessions
        /\ call' = Outcome("createSession", sessionId, "ok", sessionId)
  /\ engineSeq' = engineSeq + 1
  /\ UNCHANGED <<now, requestVars, storeVars, trackerVars, calls>>

GetState(sessionId) ==
  /\ calls < MaxCalls
  /\ calls' = calls + 1
  /\ call' = IF sessionId \in DOMAIN sessions
             THEN Outcome("getState", sessionId, "ok", CleanState(sessions[sessionId]))
             ELSE Outcome("getState", sessionId, "null", <<>>)
  /\ UNCHANGED <<now, requestVars, engineVars, storeVars, trackerVars>>

UpdateState(sessionId, updates) ==
  /\ calls < MaxCalls
  /\ calls' = calls + 1
  /\ IF sessionId \in DOMAIN sessions
     THEN /\ sessions' = EngineUpdateState(sessions, sessionId, updates, now)
          /\ call' = Outcome("updateState", sessionId, "ok", <<>>)
     ELSE /\ sessions' = sessions
          /\ call' = Outcome("updateState", sessionId, "NotFound", <<>>)
  /\ UNCHANGED <<now, requestVars, engineSeq, storeVars, trackerVars>>

RecordEvent(sessionId, event) ==
  /\ calls < MaxCalls
  /\ calls' = calls + 1
  /\ IF sessionId \in DOMAIN sessions
     THEN /\ sessions' = EngineRecordEvent(sessionId, event, now)
          /\ call' = Outcome("recordEvent", sessionId, "ok", <<>>)
     ELSE /\ sessions' = sessions
          /\ call' = Outcome("recordEvent", sessionId, "NotFound", <<>>)
  /\ UNCHANGED <<now, requestVars, engineSeq, storeVars, trackerVars>>

GetPersonalizedExperience(sessionId) ==
  /\ calls < MaxCalls
  /\ calls' = calls + 1
  /\ call' = IF sessionId \in DOMAIN sessions
             THEN Outcome("getPersonalizedExperience", sessionId, "ok",
                          GeneratePersonalization(sessions[sessionId]))
             ELSE Outcome("getPersonalizedExperience", sessionId, "NotFound", <<>>)
  /\ UNCHANGED <<now, requestVars, engineVars, storeVars, trackerVars>>

CleanExpiredSessions(maxAge) ==
  /\ sessions' = [k \in Unexpired(maxAge, now) |-> sessions[k]]
  /\ call' = Outcome("cleanExpiredSessions", <<>>, "ok", <<>>)
  /\ UNCHANGED <<now, requestVars, engineSeq, storeVars, trackerVars, calls>>

\* ---- InMemorySessionManager
SessionCreate ==
  /\ storeSeq < MaxSessions
  /\ LET sessionId == StoreId(storeSeq + 1)
     IN /\ store' = (sessionId :> SessionData(sessionId, now)) @@ store
        /\ call' = Outcome("create", sessionId, "ok", sessionId)
  /\ storeSeq' = storeSeq + 1
  /\ UNCHANGED <<now, requestVars, engineVars, trackerVars, calls>>

\* ---- FashionShoppingSystem
CreateShoppingSession ==
  /\ engineSeq < MaxSessions
  /\ LET sessionId == EngineId(engineSeq + 1)
     IN /\ sessions' = (sessionId :> InitialState(sessionId, now)) @@ sessions
        /\ Track(AnalyticsEvent("session_start", sessionId, now, NoProduct, NoCategory))
        /\ call' = Performed("createShoppingSession", sessionId, "ok", sessionId,
                             <<"createSession", "track">>)
  /\ engineSeq' = engineSeq + 1
  /\ UNCHANGED <<now, requestVars, storeVars, calls>>

\* Mutant of RecordThenTrack: the analytics event is tracked before the engine
\* is asked to record.
RecordThenTrack_TrackFirst(op, sessionId, event, tracked, value, before, after) ==
  /\ Track(tracked)
  /\ IF sessionId \in DOMAIN sessions
     THEN /\ sessions' = EngineRecordEvent(sessionId, event, now)
          /\ call' = Performed(op, sessionId, "ok", value,
                               before \o <<"track", "recordEvent">> \o after)
     ELSE /\ UNCHANGED sessions
          /\ call' = Performed(op, sessionId, "NotFound", <<>>,
                               before \o <<"track", "recordEvent">>)

\* An orchestrator action that records `event` and then tracks `tracked`,
\* between the module calls `before` and `after`.
RecordThenTrack(op, sessionId, event, tracked, value, before, after) ==
  IF sessionId \in DOMAIN sessions
  THEN /\ sessions' = EngineRecordEvent(sessionId, event, now)
       /\ Track(tracked)
       /\ call' = Performed(op, sessionId, "ok", value,
                            before \o <<"recordEvent", "track">> \o after)
  ELSE /\ UNCHANGED <<sessions, trackerVars>>
       /\ call' = Performed(op, sessionId, "NotFound", <<>>,
                            before \o <<"recordEvent">>)

\* Mutant of ViewProduct: the view is recorded and tracked whether or not
\* the catalog has the product.
ViewProduct_RecordsUnknown(sessionId, productId) ==
  /\ calls < MaxCalls
  /\ calls' = calls + 1
  /\ RecordThenTrack("viewProduct", sessionId,
       Event("view", productId, now),
       AnalyticsEvent("product_view", sessionId, now, productId, NoCategory),
       GetProduct(productId), <<"getProduct">>, <<"renderProductDetail">>)
  /\ UNCHANGED <<now, requestVars, engineSeq, storeVars>>

ViewProduct(sessionId, productId) ==
  /\ calls < MaxCalls
  /\ calls' = calls + 1
  /\ LET product == GetProduct(productId)
     IN IF product # NoProduct
        THEN RecordThenTrack("viewProduct", sessionId,
               Event("view", productId, now),
               AnalyticsEvent("product_view", sessionId, now, productId, CategoryOf(product)),
               product, <<"getProduct">>, <<"renderProductDetail">>)
        ELSE /\ UNCHANGED <<sessions, trackerVars>>
             /\ call' = Performed("viewProduct", sessionId, "ok", NoProduct,
                                  <<"getProduct">>)
  /\ UNCHANGED <<now, requestVars, engineSeq, storeVars>>

LikeProduct(sessionId, productId) ==
  /\ calls < MaxCalls
  /\ calls' = calls + 1
  /\ RecordThenTrack("likeProduct", sessionId,
       Event("like", productId, now),
       AnalyticsEvent("like_product", sessionId, now, productId, NoCategory), <<>>,
       <<>>, <<>>)
  /\ UNCHANGED <<now, requestVars, engineSeq, storeVars>>

AddToCart(sessionId, productId) ==
  /\ calls < MaxCalls
  /\ calls' = calls + 1
  /\ RecordThenTrack("addToCart", sessionId,
       Event("add-to-cart", productId, now),
       AnalyticsEvent("add_to_cart", sessionId, now, productId, NoCategory), <<>>,
       <<>>, <<>>)
  /\ UNCHANGED <<now, requestVars, engineSeq, storeVars>>

\* Mutant of StartVirtualTryOn: the updateState call is left out.
StartVirtualTryOn_NoUpdateState(sessionId, productId) ==
  /\ calls < MaxCalls
  /\ calls' = calls + 1
  /\ LET product == GetProduct(productId)
     IN IF product = NoProduct
        THEN /\ UNCHANGED <<sessions, trackerVars>>
             /\ call' = Performed("startVirtualTryOn", sessionId, "ok", FALSE,
                                  <<"getProduct">>)
        ELSE IF sessionId \in DOMAIN sessions
        THEN /\ sessions' =
                  EngineRecordEvent(sessionId, Event("try-virtual", productId, now), now)
             /\ Track(AnalyticsEvent("virtual_try_start", sessionId, now, productId, NoCategory))
             /\ call' = Performed("startVirtualTryOn", sessionId, "ok", TRUE,
                                  <<"getProduct", "recordEvent", "renderVirtualTryOn", "track">>)
        ELSE /\ UNCHANGED <<sessions, trackerVars>>
             /\ call' = Performed("startVirtualTryOn", sessionId, "NotFound", <<>>,
                                  <<"getProduct", "recordEvent">>)
  /\ UNCHANGED <<now, requestVars, engineSeq, storeVars>>

StartVirtualTryOn(sessionId, productId) ==
  /\ calls < MaxCalls
  /\ calls' = calls + 1
  /\ LET product == GetProduct(productId)
     IN IF product = NoProduct
        THEN /\ UNCHANGED <<sessions, trackerVars>>
             /\ call' = Performed("startVirtualTryOn", sessionId, "ok", FALSE,
                                  <<"getProduct">>)
        ELSE IF sessionId \in DOMAIN sessions
        THEN /\ sessions' =
                  EngineUpdateState(
                    EngineRecordEvent(sessionId, Event("try-virtual", productId, now), now),
                    sessionId,
                    [experienceMode |-> "virtual-try", currentProduct |-> product], now)
             /\ Track(AnalyticsEvent("virtual_try_start", sessionId, now, productId, NoCategory))
             /\ call' = Performed("startVirtualTryOn", sessionId, "ok", TRUE,
                                  <<"getProduct", "recordEvent", "updateState",
                                    "renderVirtualTryOn", "track">>)
        ELSE /\ UNCHANGED <<sessions, trackerVars>>
             /\ call' = Performed("startVirtualTryOn", sessionId, "NotFound", <<>>,
                                  <<"getProduct", "recordEvent">>)
  /\ UNCHANGED <<now, requestVars, engineSeq, storeVars>>

\* ---- time
Tick ==
  /\ TicksTaken < MaxTicks
  /\ now' = now + TickStep
  /\ UNCHANGED <<engineVars, storeVars, trackerVars, calls, call, requestVars>>

Next ==
  \/ CreateSession
  \/ \E k \in EngineIds, e \in EventInputs(now) : RecordEvent(k, e)
  \/ \E k \in EngineIds, u \in ScalarPartials : UpdateState(k, u)

\* The engine driven by events, and by updates that carry no array.
Spec == Init /\ [][Next]_vars

NextUpdate ==
  \/ CreateSession
  \/ \E k \in EngineIds : GetState(k)
  \/ \E k \in EngineIds, u \in Partials(now) : UpdateState(k, u)
  \/ \E k \in EngineIds, e \in FewEventInputs(now) : RecordEvent(k, e)
  \/ \E k \in EngineIds : GetPersonalizedExperience(k)
  \/ CleanExpiredSessions(MaxAge)
  \/ Tick

\* The engine's whole interface.
SpecUpdate == Init /\ [][NextUpdate]_vars

NextSystem ==
  \/ CreateShoppingSession
  \/ \E k \in EngineIds, p \in SystemProductIds : ViewProduct(k, p)
  \/ \E k \in EngineIds, p \in SystemProductIds : LikeProduct(k, p)
  \/ \E k \in EngineIds, p \in SystemProductIds : AddToCart(k, p)
  \/ \E k \in EngineIds, p \in SystemProductIds : StartVirtualTryOn(k, p)
  \/ \E k \in EngineIds, e \in FewEventInputs(now) : RecordEvent(k, e)
  \/ SessionCreate

\* The orchestrator over the engine, the session manager and the tracker.
SpecSystem == Init /\ [][NextSystem]_vars

\* ------------------------------------------- Session Manager: the interface
\* Partial<SessionData> objects a caller passes to update: the empty one,
\* another record's id, a stale lastActivity, a createdAt and preferences.
StorePartials(t) ==
  { <<>>,
    [id |-> StoreId(2)],
    [lastActivity |-> 0],
    [createdAt |-> t + 1, preferences |-> "{theme}"] }

\* update: { ...existingSession, ...data, id: sessionId, lastActivity: now }
UpdatedData(existing, data, sessionId, t) ==
  LET spread == data @@ existing
  IN [spread EXCEPT !.id = sessionId, !.lastActivity = t]

\* Mutant of StoreUnexpired: a record is dropped at the threshold already.
StoreUnexpired_AtThreshold(t) ==
  {k \in DOMAIN store : ~(t - store[k].lastActivity >= MaxAge)}

\* cleanup: the records that stay (maxAge is the same 24 hours).
StoreUnexpired(t) ==
  {k \in DOMAIN store : ~(t - store[k].lastActivity > MaxAge)}

SessionGet(sessionId) ==
  /\ calls < MaxCalls
  /\ calls' = calls + 1
  /\ IF sessionId \in DOMAIN store
     THEN LET updatedSession == [store[sessionId] EXCEPT !.lastActivity = now]
          IN /\ store' = [store EXCEPT ![sessionId] = updatedSession]
             /\ call' = Outcome("get", sessionId, "ok", updatedSession)
     ELSE /\ store' = store
          /\ call' = Outcome("get", sessionId, "null", <<>>)
  /\ UNCHANGED <<now, requestVars, storeSeq, engineVars, trackerVars>>

SessionUpdate(sessionId, data) ==
  /\ calls < MaxCalls
  /\ calls' = calls + 1
  /\ IF sessionId \in DOMAIN store
     THEN /\ store' = [store EXCEPT
                         ![sessionId] = UpdatedData(store[sessionId], data, sessionId, now)]
          /\ call' = Outcome("update", sessionId, "ok", <<>>)
     ELSE /\ store' = store
          /\ call' = Outcome("update", sessionId, "NotFound", <<>>)
  /\ UNCHANGED <<now, requestVars, storeSeq, engineVars, trackerVars>>

SessionCleanup ==
  /\ store' = [k \in StoreUnexpired(now) |-> store[k]]
  /\ call' = Outcome("cleanup", <<>>, "ok", <<>>)
  /\ UNCHANGED <<now, requestVars, storeSeq, engineVars, trackerVars, calls>>

\* startAutoCleanup: the interval timer's callback runs cleanup.  The systems
\* of createFashionShoppingSystem and createProductionSystem start it; the
\* one of createDevelopmentSystem does not.
AutoCleanup ==
  /\ store' = [k \in StoreUnexpired(now) |-> store[k]]
  /\ call' = Outcome("autoCleanup", <<>>, "ok", <<>>)
  /\ UNCHANGED <<now, requestVars, storeSeq, engineVars, trackerVars, calls>>

\* The clock advances by a millisecond or by half the expiry age, so that
\* a record's age can be just under, exactly, and just over 24 hours.
ClockSteps == {1, MaxAge \div 2}

Advance(d) ==
  /\ IF d = 1 THEN now % (MaxAge \div 2) < MaxTicks
              ELSE now + d <= MaxTicks * (MaxAge \div 2) + MaxTicks
  /\ now' = now + d
  /\ UNCHANGED <<engineVars, storeVars, trackerVars, calls, call, requestVars>>

NextStore ==
  \/ SessionCreate
  \/ \E k \in StoreIds : SessionGet(k)
  \/ \E k \in StoreIds, d \in StorePartials(now) : SessionUpdate(k, d)
  \/ SessionCleanup
  \/ \E d \in ClockSteps : Advance(d)

\* The session manager's interface, with the clock.
SpecStore == Init /\ [][NextStore]_vars

NextSweep ==
  \/ CreateShoppingSession
  \/ SessionCreate
  \/ \E k \in StoreIds : SessionGet(k)
  \/ AutoCleanup
  \/ Tick

\* A system as createFashionShoppingSystem builds it, with its timers: the
\* clock keeps advancing and the session manager's interval timer keeps
\* firing.  The engine starts no timer.
SpecSweep == Init /\ [][NextSweep]_vars /\ WF_vars(Tick) /\ WF_vars(AutoCleanup)

\* ------------------------------------------- the engine's personalization
ViewCategories == {"clothing", "bags", "shoes", "accessories"}

\* Events a caller records with metadata of its own: a view of each
\* category, a view without a category, and a like that carries a category.
PersonalEvents(t) ==
  { [type |-> "view", productId |-> "prod_001", timestamp |-> t,
     metadata |-> [category |-> c]] : c \in ViewCategories \cup {NoCategory} }
  \cup { [type |-> "like", productId |-> "prod_001", timestamp |-> t,
          metadata |-> [category |-> "bags"]] }

\* Partials that supply lists: five favorites with six viewed products
\* and a cart of one item, and five viewed products alone.
ListPartials(t) ==
  { [favorites |-> <<"prod_004", "prod_003", "prod_002", "prod_001", "prod_005">>,
     viewedProducts |->
       <<"prod_001", "prod_002", "prod_003", "prod_004", "prod_005", "prod_006">>,
     cartItems |-> << NewItem("prod_001", t) >>],
    [viewedProducts |-> <<"prod_001", "prod_002", "prod_003", "prod_004", "prod_005">>] }

TotalLogged ==
  LET RECURSIVE Sum(_)
      Sum(S) == IF S = {} THEN 0
                ELSE LET k == CHOOSE x \in S : TRUE
                     IN Len(sessions[k].events) + Sum(S \ {k})
  IN Sum(DOMAIN sessions)

\* recordEvent, for a caller that is bounded by the events logged so far.
RecordLogged(sessionId, event) ==
  /\ TotalLogged < MaxLogged
  /\ IF sessionId \in DOMAIN sessions
     THEN /\ sessions' = EngineRecordEvent(sessionId, event, now)
          /\ call' = Outcome("recordEvent", sessionId, "ok", <<>>)
     ELSE /\ sessions' = sessions
          /\ call' = Outcome("recordEvent", sessionId, "NotFound", <<>>)
  /\ UNCHANGED <<now, requestVars, engineSeq, storeVars, trackerVars, calls>>

\* The identifiers a caller uses here: the first session's, and one the
\* engine never generates.
PersonalIds == {EngineId(1), EngineId(MaxSessions + 1)}

\* The state after the first createSession call.
InitPersonal ==
  /\ now = 0
  /\ sessions = (EngineId(1) :> InitialState(EngineId(1), 0))
  /\ engineSeq = 1
  /\ store = <<>>
  /\ storeSeq = 0
  /\ trackerEvents = <<>>
  /\ systemStats = InitialStats
  /\ calls = 0
  /\ call = Outcome("createSession", EngineId(1), "ok", EngineId(1))
  /\ submissions = <<>> /\ admitted = <<>> /\ pending = <<>>

NextPersonal ==
  \/ \E k \in PersonalIds, e \in PersonalEvents(now) : RecordLogged(k, e)
  \/ \E k \in PersonalIds, u \in ListPartials(now) : UpdateState(k, u)
  \/ \E k \in PersonalIds : GetPersonalizedExperience(k)

\* The engine's personalization, over logs of views and supplied lists.
SpecPersonal == InitPersonal /\ [][NextPersonal]_vars

\* ------------------------------------------- Analytics Tracker: the reads
\* A JavaScript number that the tracker computes by division, kept exact as
\* a reduced fraction num / den.
GCD(a, b) ==
  LET RECURSIVE Euclid(_, _)
      Euclid(x, y) == IF y = 0 THEN x ELSE Euclid(y, x % y)
  IN Euclid(a, b)

Ratio(n, d) == LET g == GCD(n, d) IN [num |-> n \div g, den |-> d \div g]

RatAdd(a, b) == Ratio(a.num * b.den + b.num * a.den, a.den * b.den)

RatLeq(a, b) == a.num * b.den <= b.num * a.den

\* Math.min
RatMin(a, b) == IF RatLeq(a, b) THEN a ELSE b

\* events.sort((a, b) => a.timestamp - b.timestamp): a stable sort, in place
\* (an array that is in order already stays as it is).
SortedByTimestamp(events) ==
  LET n == Len(events)
      Rank(i) == Cardinality({j \in 1..n :
                    \/ events[j].timestamp < events[i].timestamp
                    \/ events[j].timestamp = events[i].timestamp /\ j < i})
  IN IF \A i \in 1..(n - 1) : events[i].timestamp <= events[i + 1].timestamp
     THEN events
     ELSE [r \in 1..n |-> events[CHOOSE i \in 1..n : Rank(i) = r - 1]]

\* calculateViewTime leaves the array it was given sorted when it holds two
\* events or more.
AfterViewTime(events) == IF Len(events) < 2 THEN events ELSE SortedByTimestamp(events)

CalculateViewTime(events) ==
  IF Len(events) < 2 THEN 0
  ELSE LET sortedEvents == SortedByTimestamp(events)
       IN sortedEvents[Len(sortedEvents)].timestamp - sortedEvents[1].timestamp

\* Array.from(map.entries()).sort(([,a], [,b]) => b - a): stable, by value.
SortEntriesDesc(map) ==
  LET n == Len(map)
      Rank(i) == Cardinality({j \in 1..n :
                    \/ map[j].value > map[i].value
                    \/ map[j].value = map[i].value /\ j < i})
  IN IF \A i \in 1..(n - 1) : map[i].value >= map[i + 1].value
     THEN map
     ELSE [r \in 1..n |-> map[CHOOSE i \in 1..n : Rank(i) = r - 1]]

Keys(entries) == [i \in 1..Len(entries) |-> entries[i].key]

\* getPreferredCategories: the categoryCount Map, then sort, slice, map.
CategoryCount(events) ==
  LET RECURSIVE Counted(_)
      Counted(n) ==
        IF n = 0 THEN <<>>
        ELSE IF events[n].data.category # NoCategory
             THEN Incremented(Counted(n - 1), events[n].data.category)
             ELSE Counted(n - 1)
  IN Counted(Len(events))

GetPreferredCategories(events) == Keys(Slice(SortEntriesDesc(CategoryCount(events)), 3))

Some(events, type) == \E i \in 1..Len(events) : events[i].type = type

\* Mutant of CalculateConversionLikelihood: the score is not capped.
CalculateConversionLikelihood_NoCap(events) ==
  LET flags == (IF Some(events, "product_view") THEN 2 ELSE 0)
               + (IF Some(events, "product_detail") THEN 4 ELSE 0)
               + (IF Some(events, "like") THEN 6 ELSE 0)
               + (IF Some(events, "virtual_try") THEN 5 ELSE 0)
               + (IF Some(events, "add_to_cart") THEN 8 ELSE 0)
      viewTime == CalculateViewTime(events)
      timeScore == RatMin(Ratio(viewTime, 5 * 60 * 1000), Ratio(1, 5))
      interactionScore ==
        IF viewTime = 0 THEN Ratio(3, 20)
        ELSE RatMin(Ratio(Len(events) * 3000, viewTime), Ratio(3, 20))
  IN RatAdd(RatAdd(Ratio(flags, 20), timeScore), interactionScore)

\* calculateConversionLikelihood.  The flag weights 0.1, 0.2, 0.3, 0.25, 0.4
\* are counted in twentieths.  With viewTime = 0 the rate is
\* events.length / 0 = Infinity (the log is not empty), so that
\* Math.min(Infinity * 0.05, 0.15) is 0.15; otherwise the rate times 0.05 is
\* (events.length / (viewTime / 60000)) * 0.05 = events.length * 3000 / viewTime.
CalculateConversionLikelihood(events) ==
  LET flags == (IF Some(events, "product_view") THEN 2 ELSE 0)
               + (IF Some(events, "product_detail") THEN 4 ELSE 0)
               + (IF Some(events, "like") THEN 6 ELSE 0)
               + (IF Some(events, "virtual_try") THEN 5 ELSE 0)
               + (IF Some(events, "add_to_cart") THEN 8 ELSE 0)
      viewTime == CalculateViewTime(events)
      timeScore == RatMin(Ratio(viewTime, 5 * 60 * 1000), Ratio(1, 5))
      interactionScore ==
        IF viewTime = 0 THEN Ratio(3, 20)
        ELSE RatMin(Ratio(Len(events) * 3000, viewTime), Ratio(3, 20))
      score == RatAdd(RatAdd(Ratio(flags, 20), timeScore), interactionScore)
  IN RatMin(score, Ratio(1, 1))

InteractionTypes == {"click", "scroll", "zoom", "like", "add_to_cart"}

\* analyzeUserBehavior; every step after calculateViewTime reads the sorted
\* array.
AnalyzeUserBehavior(events) ==
  IF Len(events) = 0
  THEN [viewTime |-> 0, interactionCount |-> 0, preferredCategories |-> <<>>,
        conversionLikelihood |-> Ratio(0, 1)]
  ELSE LET sorted == AfterViewTime(events)
       IN [ viewTime |-> CalculateViewTime(events),
            interactionCount |->
              Cardinality({i \in 1..Len(sorted) : sorted[i].type \in InteractionTypes}),
            preferredCategories |-> GetPreferredCategories(sorted),
            conversionLikelihood |-> CalculateConversionLikelihood(sorted) ]

\* Mutant of PopularProducts: the entries are not sorted.
PopularProducts_Unsorted(stats) == Keys(Slice(stats.productViews, 10))

\* getMetrics: popularProducts.
PopularProducts(stats) == Keys(Slice(SortEntriesDesc(stats.productViews), 10))

\* calculateAverageSessionTime: totalTime / sessionsWithTime, or 0.
CalculateAverageSessionTime(logs) ==
  LET withTime == {k \in DOMAIN logs : CalculateViewTime(logs[k]) > 0}
      RECURSIVE Total(_)
      Total(S) == IF S = {} THEN 0
                  ELSE LET k == CHOOSE x \in S : TRUE
                       IN CalculateViewTime(logs[k]) + Total(S \ {k})
  IN IF withTime = {} THEN Ratio(0, 1) ELSE Ratio(Total(withTime), Cardinality(withTime))

\* ---- FashionAnalyticsTracker
TrackEvent(event) ==
  /\ calls < MaxCalls
  /\ calls' = calls + 1
  /\ Track(event)
  /\ call' = Outcome("track", event.sessionId, "ok", <<>>)
  /\ UNCHANGED <<now, requestVars, engineVars, storeVars>>

\* Mutant of GetInsights: the session's log is created when it is missing.
GetInsights_CreatesLog(sessionId) ==
  LET sessionEvents == IF sessionId \in DOMAIN trackerEvents
                       THEN trackerEvents[sessionId] ELSE <<>>
  IN /\ trackerEvents' = (sessionId :> AfterViewTime(sessionEvents)) @@ trackerEvents
     /\ call' = Outcome("getInsights", sessionId, "ok", AnalyzeUserBehavior(sessionEvents))
     /\ UNCHANGED <<now, requestVars, engineVars, storeVars, systemStats, calls>>

GetInsights(sessionId) ==
  LET sessionEvents == IF sessionId \in DOMAIN trackerEvents
                       THEN trackerEvents[sessionId] ELSE <<>>
  IN /\ trackerEvents' = IF sessionId \in DOMAIN trackerEvents
                         THEN [trackerEvents EXCEPT ![sessionId] = AfterViewTime(sessionEvents)]
                         ELSE trackerEvents
     /\ call' = Outcome("getInsights", sessionId, "ok", AnalyzeUserBehavior(sessionEvents))
     /\ UNCHANGED <<now, requestVars, engineVars, storeVars, systemStats, calls>>

GetMetrics ==
  /\ trackerEvents' = [k \in DOMAIN trackerEvents |-> AfterViewTime(trackerEvents[k])]
  /\ call' = Outcome("getMetrics", <<>>, "ok",
                     [ activeUsers |-> Cardinality(systemStats.activeUsers),
                       popularProducts |-> PopularProducts(systemStats),
                       averageSessionTime |-> CalculateAverageSessionTime(trackerEvents) ])
  /\ UNCHANGED <<now, requestVars, engineVars, storeVars, systemStats, calls>>

\* Timestamps a caller puts into tracked events, in milliseconds.
TrackTimes == {0, 50000, 600000}

TrackTypes ==
  {"product_view", "product_detail", "like", "add_to_cart", "virtual_try", "like_product"}

\* Events a caller tracks: each type at each time for the first session, and
\* views of three more products for the second one.
TrackInputs ==
  { AnalyticsEvent(ty, EngineId(1), t, "prod_001",
                   IF ty = "product_view" THEN "clothing" ELSE NoCategory) :
      ty \in TrackTypes, t \in TrackTimes }
  \cup { AnalyticsEvent("product_view", EngineId(2), 0, p, "shoes") :
           p \in {"prod_005", "prod_010", "prod_011"} }

\* A tracker that has tracked one view of each of nine products.
SeedProducts ==
  << "prod_001", "prod_002", "prod_003", "prod_004", "prod_005",
     "prod_006", "prod_007", "prod_008", "prod_009" >>

SeedLog ==
  [i \in 1..Len(SeedProducts) |->
     AnalyticsEvent("product_view", EngineId(2), 0, SeedProducts[i], "shoes")]

SeedStats ==
  LET RECURSIVE After(_)
      After(n) == IF n = 0 THEN InitialStats
                  ELSE UpdateSystemStats(After(n - 1), SeedLog[n])
  IN After(Len(SeedLog))

\* A new tracker, or one that has tracked the nine views.
InitTracker ==
  /\ now = 0
  /\ sessions = <<>>
  /\ engineSeq = 0
  /\ store = <<>>
  /\ storeSeq = 0
  /\ \/ trackerEvents = <<>> /\ systemStats = InitialStats
     \/ trackerEvents = (EngineId(2) :> SeedLog) /\ systemStats = SeedStats
  /\ calls = 0
  /\ call = Outcome("init", <<>>, "ok", <<>>)
  /\ submissions = <<>> /\ admitted = <<>> /\ pending = <<>>

NextTracker ==
  \/ \E e \in TrackInputs : TrackEvent(e)
  \/ \E k \in EngineIds : GetInsights(k)
  \/ GetMetrics

\* The analytics tracker's interface.
SpecTracker == InitTracker /\ [][NextTracker]_vars

\* ---------------------------------------------------------- Product Catalog
\* An optional argument: <<>> when the caller leaves it out, <<x>> otherwise.
\* A ProductFilters object is a function on the keys that it has.
Has(filters, key) == key \in DOMAIN filters

\* Mutant of Matches: the price range excludes its two ends.
Matches_ExclusiveRange(product, filters) ==
  /\ ~(Has(filters, "category") /\ filters.category # ""
         /\ product.category # filters.category)
  /\ ~(Has(filters, "brand") /\ filters.brand # ""
         /\ product.brand # filters.brand)
  /\ ~(Has(filters, "priceRange")
         /\ (product.price <= filters.priceRange.min
               \/ product.price >= filters.priceRange.max))
  /\ ~(Has(filters, "tags") /\ Len(filters.tags) > 0
         /\ ~\E i \in 1..Len(filters.tags) : Includes(product.tags, filters.tags[i]))

\* getProducts: the filter callback. `filters.category &&` and
\* `filters.brand &&` are false for a missing key and for the empty string;
\* the tags are tested only when the list is not empty.
Matches(product, filters) ==
  /\ ~(Has(filters, "category") /\ filters.category # ""
         /\ product.category # filters.category)
  /\ ~(Has(filters, "brand") /\ filters.brand # ""
         /\ product.brand # filters.brand)
  /\ ~(Has(filters, "priceRange")
         /\ (product.price < filters.priceRange.min
               \/ product.price > filters.priceRange.max))
  /\ ~(Has(filters, "tags") /\ Len(filters.tags) > 0
         /\ ~\E i \in 1..Len(filters.tags) : Includes(product.tags, filters.tags[i]))

\* Array.prototype.filter: the elements that pass, in their order.
FilterProducts(products, filters) ==
  LET RECURSIVE Kept(_)
      Kept(n) == IF n = 0 THEN <<>>
                 ELSE IF Matches(products[n], filters)
                      THEN Append(Kept(n - 1), products[n])
                      ELSE Kept(n - 1)
  IN Kept(Len(products))

\* The ids of a product list (a product stands for its id).
ProductIds(products) == [i \in 1..Len(products) |-> products[i].id]

\* FashionProductCatalog.getProducts: the values of the products map, in
\* insertion order, filtered when filters are given.
GetProductsOf(filters) ==
  IF filters = <<>> THEN ProductIds(SAMPLE_PRODUCTS)
  ELSE ProductIds(FilterProducts(SAMPLE_PRODUCTS, filters[1]))

GetProducts(filters) ==
  /\ call' = Outcome("getProducts", <<>>, "ok", GetProductsOf(filters))
  /\ UNCHANGED <<now, requestVars, engineVars, storeVars, trackerVars, calls>>

\* The `browse_products` analytics event: it carries no product.
BrowseEvent(sessionId, t, filterCount, resultCount) ==
  [ type |-> "browse_products", sessionId |-> sessionId, timestamp |-> t,
    data |-> [ productId |-> NoProduct, category |-> NoCategory,
               filterCount |-> filterCount, resultCount |-> resultCount ] ]

\* FashionShoppingSystem.browseProducts
BrowseProducts(sessionId, filters) ==
  /\ calls < MaxCalls
  /\ calls' = calls + 1
  /\ LET products == GetProductsOf(filters)
         filterCount == IF filters = <<>> THEN 0 ELSE Cardinality(DOMAIN filters[1])
     IN /\ Track(BrowseEvent(sessionId, now, filterCount, Len(products)))
        /\ call' = Performed("browseProducts", sessionId, "ok", products,
                             <<"getProducts", "track", "renderProductGallery">>)
  /\ UNCHANGED <<now, requestVars, engineVars, storeVars>>

\* A filter object with one key.
OneKey(key, value) == key :> value

PriceRange(min, max) == [min |-> min, max |-> max]

\* Filter objects a caller passes: none and the empty one, each key alone
\* (with a value that some product has, that none has, and with the empty
\* string or the empty list), and several keys together.
FilterInputs ==
  { <<>>,
    OneKey("category", "clothing"), OneKey("category", ""),
    OneKey("brand", "Essence"), OneKey("brand", "Nobody"), OneKey("brand", ""),
    OneKey("priceRange", PriceRange(320, 520)),
    OneKey("priceRange", PriceRange(521, 679)),
    OneKey("priceRange", PriceRange(700, 100)),
    OneKey("tags", <<"silk", "leather">>), OneKey("tags", <<"none">>),
    OneKey("tags", <<>>),
    OneKey("category", "shoes") @@ OneKey("priceRange", PriceRange(0, 100)),
    OneKey("category", "clothing") @@ OneKey("tags", <<"leather">>),
    OneKey("category", "clothing") @@ OneKey("brand", "Forma Studio")
      @@ OneKey("priceRange", PriceRange(680, 680)) @@ OneKey("tags", <<"none", "blazer">>) }

FilterArgs == {<<>>} \cup {<<filters>> : filters \in FilterInputs}

\* What a gallery passes when it browses: nothing, one category, or a
\* category with a price range.
BrowseArgs ==
  {<<>>, <<OneKey("category", "shoes")>>,
   <<OneKey("category", "shoes") @@ OneKey("priceRange", PriceRange(0, 100))>>}

NextCatalog ==
  \/ CreateShoppingSession
  \/ \E filters \in FilterArgs : GetProducts(filters)
  \/ \E k \in PersonalIds, filters \in BrowseArgs : BrowseProducts(k, filters)

\* The catalog's filter, called directly and through the orchestrator.
SpecCatalog == Init /\ [][NextCatalog]_vars

\* ---------------------------------------------------------- Contact route
\* route.ts:9-10
WindowMs == 15 * 60 * 1000
MaxAttempts == 3

\* Client addresses (the first entry of x-forwarded-for, x-real-ip, or
\* 'unknown' when the request has neither header).
ClientIps == {"10.0.0.1", "unknown"}

\* userSubmissions.filter(time => now - time < windowMs)
RecentSubmissions(times, t) ==
  LET RECURSIVE Kept(_)
      Kept(n) == IF n = 0 THEN <<>>
                 ELSE IF t - times[n] < WindowMs
                      THEN Append(Kept(n - 1), times[n])
                      ELSE Kept(n - 1)
  IN Kept(Len(times))

\* Mutant of IsRateLimited: a rejected attempt is recorded too.
IsRateLimited_RecordsRejected(ip, t) ==
  LET userSubmissions == IF ip \in DOMAIN submissions THEN submissions[ip] ELSE <<>>
      recentSubmissions == RecentSubmissions(userSubmissions, t)
      limited == Len(recentSubmissions) >= MaxAttempts
  IN [ limited |-> limited,
       submissions |-> (ip :> Append(recentSubmissions, t)) @@ submissions ]

\* isRateLimited: whether the attempt is refused, and the map it leaves.
IsRateLimited(ip, t) ==
  LET userSubmissions == IF ip \in DOMAIN submissions THEN submissions[ip] ELSE <<>>
      recentSubmissions == RecentSubmissions(userSubmissions, t)
      limited == Len(recentSubmissions) >= MaxAttempts
  IN [ limited |-> limited,
       submissions |-> (ip :> (IF limited THEN recentSubmissions
                               ELSE Append(recentSubmissions, t))) @@ submissions ]

\* POST, as far as the rate limiter decides it: 429 for a refused attempt;
\* an admitted one goes on to validation and the relay (status "admitted").
Post(ip) ==
  /\ Len(admitted) + calls < MaxPosts
  /\ LET checked == IsRateLimited(ip, now)
     IN /\ submissions' = checked.submissions
        /\ admitted' = IF checked.limited THEN admitted ELSE Append(admitted, <<ip, now>>)
        /\ calls' = IF checked.limited THEN calls + 1 ELSE calls
        /\ call' = Outcome("POST", ip, IF checked.limited THEN "429" ELSE "admitted", <<>>)
  /\ UNCHANGED <<now, engineVars, storeVars, trackerVars, pending>>

\* Time passes between requests: a millisecond, or a millisecond less than
\* a third of the window, so that a request can come just before, at and
\* just after the end of a window.
WindowSteps == {1, WindowMs \div 3 - 1}

Wait(d) ==
  /\ IF d = 1 THEN now % (WindowMs \div 3 - 1) < MaxMs
              ELSE now + d <= MaxWait * (WindowMs \div 3)
  /\ now' = now + d
  /\ UNCHANGED <<engineVars, storeVars, trackerVars, calls, call, requestVars>>

NextContact ==
  \/ \E ip \in ClientIps : Post(ip)
  \/ \E d \in WindowSteps : Wait(d)

\* The contact endpoint's rate limiter.
SpecContact == Init /\ [][NextContact]_vars

\* --------------------------------------- Orchestrator: actions and insights
\* FashionShoppingSystem.getUserInsights
GetUserInsights(sessionId) == GetInsights(sessionId)

NextInsights ==
  \/ CreateShoppingSession
  \/ \E k \in PersonalIds, p \in SystemProductIds : ViewProduct(k, p)
  \/ \E k \in PersonalIds, p \in SystemProductIds : LikeProduct(k, p)
  \/ \E k \in PersonalIds, p \in SystemProductIds : AddToCart(k, p)
  \/ \E k \in PersonalIds, p \in SystemProductIds : StartVirtualTryOn(k, p)
  \/ \E k \in PersonalIds : GetUserInsights(k)

\* The orchestrator's product actions and the insights it reports on them.
SpecInsights == Init /\ [][NextInsights]_vars

\* ------------------------------------------- Orchestrator: calls in flight
\* An async method runs from one await to the next without interruption: the
\* module call it awaits is made there and then, and the module's own code
\* up to its first await runs with it (recordEvent calls handleEvent and
\* updateStateFromEvent before it first yields; updateState and track never
\* yield). Between two awaits of one call, other calls may run.
\* The module calls of an orchestrator method, one per await.
SegmentsOf(op) ==
  CASE op = "viewProduct" ->
         <<"getProduct", "recordEvent", "track", "renderProductDetail">>
    [] op = "likeProduct" -> <<"recordEvent", "track">>
    [] op = "addToCart" -> <<"recordEvent", "track">>
    [] op = "startVirtualTryOn" ->
         <<"getProduct", "recordEvent", "updateState", "renderVirtualTryOn", "track">>

\* The type of the engine event and of the analytics event of a method.
EventTypeOf(op) ==
  CASE op = "viewProduct" -> "view"
    [] op = "likeProduct" -> "like"
    [] op = "addToCart" -> "add-to-cart"
    [] op = "startVirtualTryOn" -> "try-virtual"

TrackedTypeOf(op) ==
  CASE op = "viewProduct" -> "product_view"
    [] op = "likeProduct" -> "like_product"
    [] op = "addToCart" -> "add_to_cart"
    [] op = "startVirtualTryOn" -> "virtual_try_start"

\* What a method returns when it completes.
ReturnOf(op, productId) ==
  CASE op = "viewProduct" -> productId
    [] op = "startVirtualTryOn" -> TRUE
    [] OTHER -> <<>>

\* The engine throws `Session not found` in this module call.
Throws(c, step) ==
  step \in {"recordEvent", "updateState"} /\ c.sid \notin DOMAIN sessions

\* The method returns early: the catalog does not have the product
\* (viewProduct returns null, startVirtualTryOn false).
ReturnsEarly(c, step) ==
  step = "getProduct" /\ GetProduct(c.productId) = NoProduct

\* Mutant of TryOnUpdates: the mode that is set is `detailed`.
TryOnUpdates_Detailed(productId) ==
  [experienceMode |-> "detailed", currentProduct |-> productId]

\* startVirtualTryOn: the updates it passes to updateState.
TryOnUpdates(productId) ==
  [experienceMode |-> "virtual-try", currentProduct |-> productId]

\* Mutant of SessionsAfter: updateState sets the mode only.
SessionsAfter_ModeOnly(c, step) ==
  IF c.sid \notin DOMAIN sessions THEN sessions
  ELSE CASE step = "recordEvent" ->
              EngineRecordEvent(c.sid, Event(EventTypeOf(c.op), c.productId, now), now)
         [] step = "updateState" ->
              EngineUpdateState(sessions, c.sid, [experienceMode |-> "virtual-try"], now)
         [] OTHER -> sessions

\* The engine's map after a module call of the call c.
SessionsAfter(c, step) ==
  IF c.sid \notin DOMAIN sessions THEN sessions
  ELSE CASE step = "recordEvent" ->
              EngineRecordEvent(c.sid, Event(EventTypeOf(c.op), c.productId, now), now)
         [] step = "updateState" ->
              EngineUpdateState(sessions, c.sid, TryOnUpdates(c.productId), now)
         [] OTHER -> sessions

\* Mutant of Proceed: a recordEvent made while another call on the session
\* is in flight is lost.
Proceed_LosesUpdate(id, c) ==
  LET step == SegmentsOf(c.op)[Len(c.done) + 1]
      done == Append(c.done, step)
      others == [j \in DOMAIN pending \ {id} |-> pending[j]]
      overlaps == \E j \in DOMAIN others : others[j].sid = c.sid
  IN /\ sessions' = IF step = "recordEvent" /\ overlaps THEN sessions
                     ELSE SessionsAfter(c, step)
     /\ IF step = "track"
        THEN Track(AnalyticsEvent(TrackedTypeOf(c.op), c.sid, now, c.productId,
                                  IF c.op = "viewProduct" THEN CategoryOf(c.productId)
                                  ELSE NoCategory))
        ELSE UNCHANGED trackerVars
     /\ IF Throws(c, step)
        THEN /\ pending' = others
             /\ call' = Performed(c.op, c.sid, "NotFound", <<>>, done)
        ELSE IF ReturnsEarly(c, step)
        THEN /\ pending' = others
             /\ call' = Performed(c.op, c.sid, "ok",
                                  IF c.op = "viewProduct" THEN NoProduct ELSE FALSE, done)
        ELSE IF Len(done) = Len(SegmentsOf(c.op))
        THEN /\ pending' = others
             /\ call' = Performed(c.op, c.sid, "ok", ReturnOf(c.op, c.productId), done)
        ELSE /\ pending' = (id :> [c EXCEPT !.done = done]) @@ others
             /\ UNCHANGED call

\* The call c (in flight under the number id) runs up to its next await, or
\* to its end.
Proceed(id, c) ==
  LET step == SegmentsOf(c.op)[Len(c.done) + 1]
      done == Append(c.done, step)
      others == [j \in DOMAIN pending \ {id} |-> pending[j]]
  IN /\ sessions' = SessionsAfter(c, step)
     /\ IF step = "track"
        THEN Track(AnalyticsEvent(TrackedTypeOf(c.op), c.sid, now, c.productId,
                                  IF c.op = "viewProduct" THEN CategoryOf(c.productId)
                                  ELSE NoCategory))
        ELSE UNCHANGED trackerVars
     /\ IF Throws(c, step)
        THEN /\ pending' = others
             /\ call' = Performed(c.op, c.sid, "NotFound", <<>>, done)
        ELSE IF ReturnsEarly(c, step)
        THEN /\ pending' = others
             /\ call' = Performed(c.op, c.sid, "ok",
                                  IF c.op = "viewProduct" THEN NoProduct ELSE FALSE, done)
        ELSE IF Len(done) = Len(SegmentsOf(c.op))
        THEN /\ pending' = others
             /\ call' = Performed(c.op, c.sid, "ok", ReturnOf(c.op, c.productId), done)
        ELSE /\ pending' = (id :> [c EXCEPT !.done = done]) @@ others
             /\ UNCHANGED call

\* A caller invokes a method: it runs up to its first await.
Invoke(op, sessionId, productId) ==
  /\ calls < MaxCalls
  /\ calls' = calls + 1
  /\ Proceed(calls + 1,
             [op |-> op, sid |-> sessionId, productId |-> productId, done |-> <<>>])
  /\ UNCHANGED <<now, engineSeq, storeVars, submissions, admitted>>

\* A call in flight resumes after its await.
Resume(id) ==
  /\ id \in DOMAIN pending
  /\ Proceed(id, pending[id])
  /\ UNCHANGED <<now, engineSeq, storeVars, calls, submissions, admitted>>

FlightOps == {"viewProduct", "likeProduct", "addToCart", "startVirtualTryOn"}

\* Product ids the concurrent callers pass: two catalog products and an id
\* the catalog does not have.
FlightProductIds == {"prod_001", "prod_004", "prod_999"}

NextFlight ==
  \/ CreateShoppingSession
  \/ \E op \in FlightOps, k \in PersonalIds, p \in FlightProductIds : Invoke(op, k, p)
  \/ \E id \in 1..MaxCalls : Resume(id)

\* The orchestrator with several calls in flight at once.
SpecFlight == Init /\ [][NextFlight]_vars

\* ------------------------------------------ Orchestrator: a long session
\* FashionShoppingSystem.getPersonalization
GetPersonalization(sessionId) == GetPersonalizedExperience(sessionId)

\* The product views of a session that has been browsing for a while: the
\* first n catalog products, one viewProduct call each.
SeedViewEvents(n) == [i \in 1..n |-> Event("view", SAMPLE_PRODUCTS[i].id, 0)]

SeedSession(n) ==
  LET RECURSIVE After(_)
      After(i) == IF i = 0 THEN InitialState(EngineId(1), 0)
                  ELSE RecordedSession(After(i - 1), SeedViewEvents(n)[i], 0)
  IN After(n)

SeedTracked(n) ==
  <<AnalyticsEvent("session_start", EngineId(1), 0, NoProduct, NoCategory)>>
  \o [i \in 1..n |->
        AnalyticsEvent("product_view", EngineId(1), 0, SAMPLE_PRODUCTS[i].id,
                       SAMPLE_PRODUCTS[i].category)]

SeedTrackedStats(n) ==
  LET RECURSIVE After(_)
      After(i) == IF i = 0 THEN InitialStats
                  ELSE UpdateSystemStats(After(i - 1), SeedTracked(n)[i])
  IN After(n + 1)

\* The state after createShoppingSession and viewProduct of the first three,
\* or of all four, catalog products.
InitShop ==
  /\ now = 0
  /\ \E n \in {Len(SAMPLE_PRODUCTS) - 1, Len(SAMPLE_PRODUCTS)} :
       /\ sessions = (EngineId(1) :> SeedSession(n))
       /\ trackerEvents = (EngineId(1) :> SeedTracked(n))
       /\ systemStats = SeedTrackedStats(n)
       /\ call = Performed("viewProduct", EngineId(1), "ok", SAMPLE_PRODUCTS[n].id,
                           <<"getProduct", "recordEvent", "track", "renderProductDetail">>)
  /\ engineSeq = 1
  /\ store = <<>>
  /\ storeSeq = 0
  /\ calls = 0
  /\ submissions = <<>> /\ admitted = <<>> /\ pending = <<>>

\* Product ids the shopper passes: two catalog products (one of them not
\* seen yet by the shorter session) and two ids the catalog does not have.
ShopProductIds == {"prod_001", "prod_004", "prod_005", "prod_999"}

NextShop ==
  \/ \E k \in PersonalIds, p \in ShopProductIds : ViewProduct(k, p)
  \/ \E k \in PersonalIds, p \in ShopProductIds : LikeProduct(k, p)
  \/ \E k \in PersonalIds : GetPersonalization(k)

\* A session that goes on after it has viewed most of the catalog.
SpecShop == InitShop /\ [][NextShop]_vars

\* ------------------------------------------- Analytics Tracker: active users
\* Mutant of ClearSessionData: the identifier stays in the active set.
ClearSessionData_LogOnly(sessionId) ==
  /\ trackerEvents' = [k \in DOMAIN trackerEvents \ {sessionId} |-> trackerEvents[k]]
  /\ UNCHANGED systemStats
  /\ call' = Outcome("clearSessionData", sessionId, "ok", <<>>)
  /\ UNCHANGED <<now, requestVars, engineVars, storeVars, calls>>

\* FashionAnalyticsTracker.clearSessionData
ClearSessionData(sessionId) ==
  /\ trackerEvents' = [k \in DOMAIN trackerEvents \ {sessionId} |-> trackerEvents[k]]
  /\ systemStats' = [systemStats EXCEPT !.activeUsers = @ \ {sessionId}]
  /\ call' = Outcome("clearSessionData", sessionId, "ok", <<>>)
  /\ UNCHANGED <<now, requestVars, engineVars, storeVars, calls>>

NextActive ==
  \/ CreateShoppingSession
  \/ SessionCreate
  \/ \E k \in PersonalIds : BrowseProducts(k, <<>>)
  \/ \E k \in PersonalIds : ClearSessionData(k)
  \/ \E k \in PersonalIds : GetInsights(k)
  \/ GetMetrics
  \/ CleanExpiredSessions(MaxAge)
  \/ AutoCleanup
  \/ Tick

\* The tracker's active-session set under the orchestrator's tracking, the
\* tracker's reads, and the expiry sweeps of the engine and the session store.
SpecActive == Init /\ [][NextActive]_vars

\* ================================================================== claims
\* The step is the call `op` on identifier k (every call counts in `calls` and
\* leaves its name and identifier in `call`).
Calling(op, k) == calls' = calls + 1 /\ call'.op = op /\ call'.sid = k

\* The last call was a successful `op` on session k.
Called(op, k) ==
  call.op = op /\ call.status = "ok" /\ call.sid = k /\ k \in DOMAIN sessions

Occurrences(seq, x) == Cardinality({i \in 1..Len(seq) : seq[i] = x})

Last(seq) == seq[Len(seq)]

\* The product ids of the logged events of one type that carry a product id.
LoggedIds(events, type) ==
  LET RECURSIVE Ids(_)
      Ids(n) == IF n = 0 THEN <<>>
                ELSE IF events[n].type = type /\ events[n].productId # NoProduct
                     THEN Append(Ids(n - 1), events[n].productId)
                     ELSE Ids(n - 1)
  IN Ids(Len(events))

\* A sequence without the repetitions of its elements: first occurrences only.
FirstOccurrences(seq) ==
  LET RECURSIVE First(_)
      First(n) == IF n = 0 THEN <<>>
                  ELSE IF Includes(First(n - 1), seq[n]) THEN First(n - 1)
                       ELSE Append(First(n - 1), seq[n])
  IN First(Len(seq))

Products == EventProductIds \ {NoProduct}

\* ------------------------------------------------------- claims on Spec
\* C1: in a session driven by recordEvent, every product with one or more
\* logged `like` events is in favorites exactly once, at the position of its
\* first like (favorites is the sequence of liked products in the order of their
\* first likes), and no step removes an id from favorites.
C1_LikedOnceAtFirstLike ==
  /\ [](\A k \in DOMAIN sessions :
          /\ sessions[k].favorites = FirstOccurrences(LoggedIds(sessions[k].events, "like"))
          /\ \A p \in Products :
               Includes(LoggedIds(sessions[k].events, "like"), p)
                 => Occurrences(sessions[k].favorites, p) = 1)
  /\ [][\A k \in DOMAIN sessions \cap DOMAIN sessions' :
          \A i \in 1..Len(sessions[k].favorites) :
             Includes(sessions'[k].favorites, sessions[k].favorites[i])]_vars

\* A session whose log holds two likes of one product with the like of
\* another product between them.
C1_Witness ==
  \E k \in DOMAIN sessions :
    LET ev == sessions[k].events
    IN /\ Len(ev) = 3
       /\ ev[1].type = "like" /\ ev[1].productId = "prod_001"
       /\ ev[2].type = "like" /\ ev[2].productId = "prod_004"
       /\ ev[3].type = "like" /\ ev[3].productId = "prod_001"
       /\ sessions[k].favorites = <<"prod_001", "prod_004">>

AddCount(events, p) == Occurrences(LoggedIds(events, "add-to-cart"), p)

\* C2: in a session whose cartItems no updateState supplied, a product with
\* n >= 1 logged `add-to-cart` events has exactly one cart entry, of quantity n.
C2_CartQuantityCountsAdds ==
  \A k \in DOMAIN sessions : \A p \in Products :
    LET n == AddCount(sessions[k].events, p)
        cart == sessions[k].cartItems
    IN n >= 1 =>
         /\ Cardinality({i \in 1..Len(cart) : cart[i].productId = p}) = 1
         /\ \A i \in 1..Len(cart) : cart[i].productId = p => cart[i].quantity = n

\* Two adds of one product with another event between them: quantity 2.
C2_Witness ==
  \E k \in DOMAIN sessions :
    LET ev == sessions[k].events
    IN /\ Len(ev) = 3
       /\ ev[1].type = "add-to-cart" /\ ev[1].productId = "prod_001"
       /\ ev[2].type # "add-to-cart"
       /\ ev[3].type = "add-to-cart" /\ ev[3].productId = "prod_001"
       /\ \E i \in 1..Len(sessions[k].cartItems) :
            sessions[k].cartItems[i].quantity = 2

\* C5 (as claimed): recordEvent of any `try-virtual` event on a known session,
\* with or without a productId, leaves experienceMode = virtual-try and
\* currentProduct absent.
C5_TryVirtualAnyEvent ==
  [][\A k \in DOMAIN sessions :
       Calling("recordEvent", k) =>
         \A e \in EventInputs(now) :
           (e.type = "try-virtual" /\ RecordEvent(k, e))
             => /\ sessions'[k].experienceMode = "virtual-try"
                /\ sessions'[k].currentProduct = NoProduct]_vars

\* C5 (amended): recordEvent of a `try-virtual` event that carries a productId
\* leaves experienceMode = virtual-try and currentProduct absent; one that
\* carries no productId is logged and leaves both as they were.
C5_TryVirtualWithProduct ==
  [][\A k \in DOMAIN sessions :
       Calling("recordEvent", k) =>
         \A e \in EventInputs(now) :
           (e.type = "try-virtual" /\ RecordEvent(k, e))
             => /\ sessions'[k].events = Append(sessions[k].events, e)
                /\ IF e.productId # NoProduct
                   THEN /\ sessions'[k].experienceMode = "virtual-try"
                        /\ sessions'[k].currentProduct = NoProduct
                   ELSE /\ sessions'[k].experienceMode = sessions[k].experienceMode
                        /\ sessions'[k].currentProduct = sessions[k].currentProduct]_vars

\* A `try-virtual` event with a productId has just been recorded, after
\* another call, and the session is in virtual-try with no current product.
C5_Witness ==
  \E k \in DOMAIN sessions :
    /\ Called("recordEvent", k)
    /\ Last(sessions[k].events).type = "try-virtual"
    /\ Last(sessions[k].events).productId # NoProduct
    /\ sessions[k].experienceMode = "virtual-try"
    /\ sessions[k].currentProduct = NoProduct
    /\ calls >= 2

\* C6: experienceMode of a session changes only in a recordEvent of a
\* `try-virtual` event or an updateState that supplies experienceMode; a view,
\* like, add-to-cart or share event leaves experienceMode and currentProduct
\* unchanged; a share event also leaves viewedProducts, favorites and cartItems
\* unchanged, and is appended to the log.
C6_ModeFrame ==
  [][\A k \in DOMAIN sessions \cap DOMAIN sessions' :
       /\ sessions'[k].experienceMode # sessions[k].experienceMode
            => \/ \E e \in EventInputs(now) : e.type = "try-virtual" /\ RecordEvent(k, e)
               \/ \E u \in ScalarPartials :
                    "experienceMode" \in DOMAIN u /\ UpdateState(k, u)
       /\ Calling("recordEvent", k) =>
            \A e \in EventInputs(now) :
              (e.type # "try-virtual" /\ RecordEvent(k, e))
                => /\ sessions'[k].experienceMode = sessions[k].experienceMode
                   /\ sessions'[k].currentProduct = sessions[k].currentProduct
                   /\ e.type = "share"
                        => /\ sessions'[k].viewedProducts = sessions[k].viewedProducts
                           /\ sessions'[k].favorites = sessions[k].favorites
                           /\ sessions'[k].cartItems = sessions[k].cartItems
                           /\ sessions'[k].events = Append(sessions[k].events, e)]_vars

\* A share event has just been recorded on a session that is in virtual-try
\* with a current product and a favorite.
C6_Witness ==
  \E k \in DOMAIN sessions :
    /\ Called("recordEvent", k)
    /\ Last(sessions[k].events).type = "share"
    /\ sessions[k].experienceMode = "virtual-try"
    /\ sessions[k].currentProduct # NoProduct
    /\ Len(sessions[k].favorites) = 1

\* ------------------------------------------------ claims on SpecSystem
\* The call that is being made fails and changes no store.
FailsAndChangesNothing ==
  /\ call'.status = "NotFound"
  /\ UNCHANGED <<sessions, store, trackerEvents, systemStats>>

\* C3: recordEvent with an identifier the engine does not hold fails with
\* not-found and changes no store, called directly or through viewProduct,
\* likeProduct, addToCart or startVirtualTryOn (the engine's sessions and logs,
\* the tracker's logs and counters, and the session store are unchanged).
C3_UnknownSessionChangesNothing ==
  [][\A k \in EngineIds \ DOMAIN sessions :
       /\ Calling("recordEvent", k) =>
            \A e \in FewEventInputs(now) : RecordEvent(k, e) => FailsAndChangesNothing
       /\ Calling("likeProduct", k) =>
            \A p \in SystemProductIds : LikeProduct(k, p) => FailsAndChangesNothing
       /\ Calling("addToCart", k) =>
            \A p \in SystemProductIds : AddToCart(k, p) => FailsAndChangesNothing
       /\ Calling("viewProduct", k) =>
            \A p \in SystemProductIds \cap CatalogIds :
              ViewProduct(k, p) => FailsAndChangesNothing
       /\ Calling("startVirtualTryOn", k) =>
            \A p \in SystemProductIds \cap CatalogIds :
              StartVirtualTryOn(k, p) => FailsAndChangesNothing]_vars

\* An orchestrator call has just failed on an unknown identifier while the
\* engine and the tracker hold another session's records.
C3_Witness ==
  /\ call.op \in {"viewProduct", "likeProduct", "addToCart", "startVirtualTryOn"}
  /\ call.status = "NotFound"
  /\ call.sid \notin DOMAIN sessions
  /\ DOMAIN sessions # {}
  /\ systemStats.totalEvents >= 2

\* C10 (as claimed): once createShoppingSession has returned S, the engine
\* and the session store both hold a record keyed by S.
C10_CreatedTogether ==
  call.op = "createShoppingSession"
    => /\ call.value \in DOMAIN sessions
       /\ call.value \in DOMAIN store

\* ------------------------------------------------ claims on SpecUpdate
NoDuplicates(seq) == \A i, j \in 1..Len(seq) : seq[i] = seq[j] => i = j

UniqueProductIds(cartItems) ==
  \A i, j \in 1..Len(cartItems) :
    cartItems[i].productId = cartItems[j].productId => i = j

Deduplicated(session) ==
  /\ NoDuplicates(session.viewedProducts)
  /\ NoDuplicates(session.favorites)
  /\ UniqueProductIds(session.cartItems)

\* C4 (as claimed): in every reachable state of the engine each session's
\* viewedProducts and favorites hold no id twice and its cartItems hold at
\* most one entry per productId.
C4_AlwaysDeduplicated ==
  \A k \in DOMAIN sessions : Deduplicated(sessions[k])

\* The partial supplies an array that itself holds a duplicate.
SuppliesDuplicate(u) ==
  \/ "viewedProducts" \in DOMAIN u /\ ~NoDuplicates(u.viewedProducts)
  \/ "favorites" \in DOMAIN u /\ ~NoDuplicates(u.favorites)
  \/ "cartItems" \in DOMAIN u /\ ~UniqueProductIds(u.cartItems)

\* C4 (amended): a new session's lists are duplicate-free, and every step
\* keeps a session's lists duplicate-free unless it is an updateState whose
\* partial supplies an array that itself holds a duplicate, which is stored
\* as it is.
C4_DedupPreserved ==
  /\ [](\A k \in DOMAIN sessions :
          Called("createSession", k) => Deduplicated(sessions[k]))
  /\ [][\A k \in DOMAIN sessions \cap DOMAIN sessions' :
          /\ \/ Deduplicated(sessions'[k])
             \/ ~Deduplicated(sessions[k])
             \/ \E u \in Partials(now) : SuppliesDuplicate(u) /\ UpdateState(k, u)
          /\ Calling("updateState", k) =>
               \A u \in Partials(now) :
                 (SuppliesDuplicate(u) /\ UpdateState(k, u))
                    => ~Deduplicated(sessions'[k])]_vars

\* A like has just been recorded for a product that an updateState had put
\* into favorites, behind another one: favorites is still duplicate-free.
C4_Witness ==
  \E k \in DOMAIN sessions :
    /\ Called("recordEvent", k)
    /\ Last(sessions[k].events).type = "like"
    /\ sessions[k].favorites = <<"prod_004", "prod_001">>

StateFields ==
  {"sessionId", "currentProduct", "viewedProducts", "favorites", "cartItems", "experienceMode"}

\* C7: updateState on an unknown session fails with not-found and changes
\* nothing; on a known session every supplied field takes the supplied value
\* (arrays wholesale), every other field and the event log are kept, no other
\* session changes, and timestamp becomes the current time, also when the
\* partial supplies a timestamp.
C7_UpdateStateMerges ==
  [][\A k \in EngineIds :
       Calling("updateState", k) =>
         \A u \in Partials(now) :
           UpdateState(k, u) =>
             IF k \notin DOMAIN sessions
             THEN FailsAndChangesNothing
             ELSE /\ call'.status = "ok"
                  /\ DOMAIN sessions' = DOMAIN sessions
                  /\ \A j \in DOMAIN sessions \ {k} : sessions'[j] = sessions[j]
                  /\ \A f \in StateFields :
                       sessions'[k][f] = IF f \in DOMAIN u THEN u[f] ELSE sessions[k][f]
                  /\ sessions'[k].timestamp = now
                  /\ sessions'[k].events = sessions[k].events]_vars

\* An updateState has just replaced the favorites of a session that had
\* liked a product: the log is kept and the timestamp is the current time,
\* later than the session's creation.
C7_Witness ==
  \E k \in DOMAIN sessions :
    /\ Called("updateState", k)
    /\ Includes(LoggedIds(sessions[k].events, "like"), "prod_001")
    /\ sessions[k].favorites = <<"prod_004", "prod_001">>
    /\ sessions[k].timestamp = now
    /\ now > 0

\* C8 (as claimed): the state stored under identifier k, and the state that
\* getState(k) returns, has sessionId = k.
C8_SessionIdIsKey ==
  /\ \A k \in DOMAIN sessions : sessions[k].sessionId = k
  /\ (call.op = "getState" /\ call.status = "ok") => call.value.sessionId = call.sid

\* C9: the event log of a session is append-only: a successful recordEvent
\* appends exactly its event, whatever its type and with or without a
\* productId; no step that is not a recordEvent on the session changes its
\* log; in every step the old log is a prefix of the new one.
C9_LogAppendOnly ==
  [][\A k \in DOMAIN sessions \cap DOMAIN sessions' :
       /\ IsPrefix(sessions[k].events, sessions'[k].events)
       /\ Calling("recordEvent", k) =>
            \A e \in FewEventInputs(now) :
              RecordEvent(k, e) => sessions'[k].events = Append(sessions[k].events, e)
       /\ sessions'[k].events # sessions[k].events
            => \E e \in FewEventInputs(now) : RecordEvent(k, e)]_vars

\* An updateState has just been made on a session whose log holds two
\* events, the second one without a productId.
C9_Witness ==
  \E k \in DOMAIN sessions :
    /\ Called("updateState", k)
    /\ Len(sessions[k].events) = 2
    /\ sessions[k].events[2].productId = NoProduct

\* ------------------------------------------------- claims on SpecSweep
EngineExpired(k) == k \in DOMAIN sessions /\ now - sessions[k].timestamp > MaxAge

StoreExpired(k) == k \in DOMAIN store /\ now - store[k].lastActivity > MaxAge

\* C11 (as claimed): with no caller invoking a cleanup method, every engine
\* session and every session store record whose last activity is older than
\* 24 hours is eventually deleted by a background sweep.
C11_ExpiredEventuallySwept ==
  /\ \A k \in EngineIds : EngineExpired(k) ~> (k \notin DOMAIN sessions)
  /\ \A k \in StoreIds : StoreExpired(k) ~> (k \notin DOMAIN store)

\* ------------------------------------------------- claims on SpecStore
\* C18: cleanup deletes exactly the records whose last activity is more than
\* 24 hours before the current time and leaves every other record as it is;
\* get and update on a known id set lastActivity to the current time (update
\* keeps the id, get changes nothing else), so that a record read or updated
\* no more than 24 hours ago survives a cleanup; get on an unknown id returns
\* null and creates no record.
C18_CleanupDeletesOnlyStale ==
  [][/\ SessionCleanup =>
          /\ DOMAIN store' = {k \in DOMAIN store : now - store[k].lastActivity <= MaxAge}
          /\ \A k \in DOMAIN store' : store'[k] = store[k]
     /\ \A k \in StoreIds :
          /\ Calling("get", k) =>
               IF k \in DOMAIN store
               THEN /\ store' = [store EXCEPT ![k].lastActivity = now]
                    /\ call'.status = "ok" /\ call'.value = store'[k]
               ELSE /\ store' = store
                    /\ call'.status = "null"
          /\ (Calling("update", k) /\ k \in DOMAIN store) =>
               /\ DOMAIN store' = DOMAIN store
               /\ store'[k].id = k
               /\ store'[k].lastActivity = now
               /\ \A j \in DOMAIN store \ {k} : store'[j] = store[j]]_vars

\* A cleanup has just deleted one of two records and kept the other one,
\* which a get had refreshed and which is exactly 24 hours old.
C18_Witness ==
  /\ call.op = "cleanup"
  /\ storeSeq = 2
  /\ \E k \in DOMAIN store :
       /\ DOMAIN store = {k}
       /\ store[k].createdAt < store[k].lastActivity
       /\ now - store[k].lastActivity = MaxAge

\* ------------------------------------------ further claims on SpecSystem
OrchestratorOps ==
  {"createShoppingSession", "browseProducts", "viewProduct", "likeProduct",
   "addToCart", "startVirtualTryOn"}

\* The place of a module call in the claimed order; 0 for a call the order
\* does not place (createSession, updateState).
StepRank(step) ==
  CASE step \in {"getProduct", "getProducts"} -> 1
    [] step = "recordEvent" -> 2
    [] step = "track" -> 3
    [] step \in {"renderProductGallery", "renderProductDetail", "renderVirtualTryOn"} -> 4
    [] OTHER -> 0

\* C12 (as claimed): the module calls of every orchestrator action are made
\* in the order catalog read, engine recordEvent, analytics track, renderer;
\* no action calls the renderer before it has tracked its analytics event.
C12_RenderAfterTrack ==
  call.op \in OrchestratorOps =>
    \A i, j \in 1..Len(call.steps) :
      (i < j /\ StepRank(call.steps[i]) > 0 /\ StepRank(call.steps[j]) > 0)
        => StepRank(call.steps[i]) <= StepRank(call.steps[j])

\* The logged events of one type.
OfType(events, type) == {i \in 1..Len(events) : events[i].type = type}

TrackerLog(k) == IF k \in DOMAIN trackerEvents THEN trackerEvents[k] ELSE <<>>

\* C20: startVirtualTryOn with a product id that is not in the catalog
\* returns false and changes neither the engine's sessions nor the tracker's
\* logs and counters; with a known session and a catalog product it returns
\* true and leaves the session in virtual-try with that product as its
\* currentProduct, its engine log longer by one `try-virtual` event and its
\* analytics log longer by one `virtual_try_start` event.
C20_TryOnSetsProduct ==
  [][\A k \in EngineIds :
       Calling("startVirtualTryOn", k) =>
         \A p \in SystemProductIds :
           StartVirtualTryOn(k, p) =>
             IF p \notin CatalogIds
             THEN /\ call'.status = "ok" /\ call'.value = FALSE
                  /\ UNCHANGED <<sessions, trackerEvents, systemStats>>
             ELSE k \in DOMAIN sessions =>
                  /\ call'.status = "ok" /\ call'.value = TRUE
                  /\ sessions'[k].experienceMode = "virtual-try"
                  /\ sessions'[k].currentProduct = p
                  /\ Len(sessions'[k].events) = Len(sessions[k].events) + 1
                  /\ IsPrefix(sessions[k].events, sessions'[k].events)
                  /\ Last(sessions'[k].events).type = "try-virtual"
                  /\ Last(sessions'[k].events).productId = p
                  /\ Len(TrackerLog(k)') = Len(TrackerLog(k)) + 1
                  /\ IsPrefix(TrackerLog(k), TrackerLog(k)')
                  /\ Last(TrackerLog(k)').type = "virtual_try_start"
                  /\ Last(TrackerLog(k)').data.productId = p]_vars

\* A try-on has just been started on a session that had liked the product:
\* the product is the current one and both logs end with the try-on.
C20_Witness ==
  \E k \in DOMAIN sessions :
    /\ call.op = "startVirtualTryOn" /\ call.sid = k /\ call.value = TRUE
    /\ sessions[k].currentProduct = "prod_001"
    /\ sessions[k].favorites = <<"prod_001">>
    /\ Len(sessions[k].events) = 2
    /\ Last(TrackerLog(k)).type = "virtual_try_start"

\* ---------------------------------------------- claims on SpecPersonal
\* The number of logged `view` events that carry category c.
ViewsOf(events, c) ==
  Cardinality({i \in 1..Len(events) :
                 events[i].type = "view" /\ events[i].metadata.category = c})

\* The place in the log of the first `view` event that carries category c.
FirstViewOf(events, c) ==
  CHOOSE i \in 1..Len(events) :
    /\ events[i].type = "view" /\ events[i].metadata.category = c
    /\ \A j \in 1..(i - 1) :
         ~(events[j].type = "view" /\ events[j].metadata.category = c)

\* Category c is ranked before category d: more views, or as many and seen first.
RankedBefore(events, c, d) ==
  \/ ViewsOf(events, c) > ViewsOf(events, d)
  \/ /\ ViewsOf(events, c) = ViewsOf(events, d)
     /\ FirstViewOf(events, c) < FirstViewOf(events, d)

Min(a, b) == IF a <= b THEN a ELSE b

\* C13: getPersonalizedExperience on a known session returns as
\* preferredCategories the (at most) three categories with the most logged
\* `view` events that carry them, by descending count, ties broken by which
\* category the log shows first; on an unknown session it fails with
\* not-found.
C13_TopThreeCategories ==
  [][\A k \in EngineIds :
       (Calling("getPersonalizedExperience", k) /\ GetPersonalizedExperience(k)) =>
         IF k \notin DOMAIN sessions
         THEN call'.status = "NotFound" /\ UNCHANGED sessions
         ELSE LET events == sessions[k].events
                  viewed == {c \in ViewCategories : ViewsOf(events, c) > 0}
                  top == call'.value.preferredCategories
              IN /\ call'.status = "ok"
                 /\ Len(top) = Min(3, Cardinality(viewed))
                 /\ \A i \in 1..Len(top) : top[i] \in viewed
                 /\ \A i, j \in 1..Len(top) :
                      i < j => RankedBefore(events, top[i], top[j])
                 /\ \A c \in viewed :
                      Includes(top, c) \/ \A i \in 1..Len(top) :
                                            RankedBefore(events, top[i], c)]_vars

\* The personalization has just been read from a log of five events that
\* shows four categories, the last one twice: that one comes first and the
\* third of the categories seen once is cut off.
C13_Witness ==
  /\ call.op = "getPersonalizedExperience" /\ call.status = "ok"
  /\ call.sid \in DOMAIN sessions
  /\ Len(sessions[call.sid].events) = 5
  /\ Cardinality({c \in ViewCategories : ViewsOf(sessions[call.sid].events, c) > 0}) = 4
  /\ call.value.preferredCategories = <<"shoes", "clothing", "bags">>

SuggestionOrder == <<"virtual-styling", "complete-the-look", "personalized-collection">>

PlaceOf(seq, x) == CHOOSE i \in 1..Len(seq) : seq[i] = x

\* C14: getPersonalizedExperience returns as recommendedProducts the first
\* four favorites in their order, and as suggestedExperiences
\* "virtual-styling" exactly when favorites is non-empty, "complete-the-look"
\* exactly when cartItems is non-empty and "personalized-collection" exactly
\* when viewedProducts has more than five entries, in that order.
C14_RecommendedAndSuggested ==
  [][\A k \in DOMAIN sessions :
       (Calling("getPersonalizedExperience", k) /\ GetPersonalizedExperience(k)) =>
         LET session == sessions[k]
             recommended == call'.value.recommendedProducts
             suggested == call'.value.suggestedExperiences
         IN /\ Len(recommended) = Min(4, Len(session.favorites))
            /\ \A i \in 1..Len(recommended) : recommended[i] = session.favorites[i]
            /\ Includes(suggested, "virtual-styling") <=> Len(session.favorites) > 0
            /\ Includes(suggested, "complete-the-look") <=> Len(session.cartItems) > 0
            /\ Includes(suggested, "personalized-collection")
                 <=> Len(session.viewedProducts) > 5
            /\ \A i \in 1..Len(suggested) : Includes(SuggestionOrder, suggested[i])
            /\ \A i, j \in 1..Len(suggested) :
                 i < j => PlaceOf(SuggestionOrder, suggested[i])
                            < PlaceOf(SuggestionOrder, suggested[j])]_vars

\* The personalization has just been read from a session with one favorite
\* and exactly five viewed products: no "personalized-collection".
C14_Witness ==
  /\ call.op = "getPersonalizedExperience" /\ call.status = "ok"
  /\ call.sid \in DOMAIN sessions
  /\ Len(sessions[call.sid].viewedProducts) = 5
  /\ Len(sessions[call.sid].favorites) = 1
  /\ call.value.suggestedExperiences = <<"virtual-styling">>
  /\ call.value.recommendedProducts = sessions[call.sid].favorites

\* ----------------------------------------------- claims on SpecTracker
\* C15: getInsights for an identifier with no tracked event, one the tracker
\* has never seen included, returns viewTime 0, interactionCount 0, no
\* preferred category and conversionLikelihood 0, and adds the identifier
\* neither to the per-session logs nor to the active-session set.
C15_NoEventsNoInsights ==
  [][\A k \in EngineIds :
       (call'.op = "getInsights" /\ call'.sid = k /\ TrackerLog(k) = <<>>) =>
         /\ call'.value.viewTime = 0
         /\ call'.value.interactionCount = 0
         /\ call'.value.preferredCategories = <<>>
         /\ call'.value.conversionLikelihood.num = 0
         /\ DOMAIN trackerEvents' = DOMAIN trackerEvents
         /\ UNCHANGED <<trackerEvents, systemStats>>]_vars

\* The insights of an unseen identifier have just been read from a tracker
\* that holds another session's events.
C15_Witness ==
  /\ call.op = "getInsights"
  /\ call.sid \notin DOMAIN trackerEvents
  /\ call.sid \notin systemStats.activeUsers
  /\ systemStats.totalEvents >= 2
  /\ call.value.interactionCount = 0

\* The number of tracked `product_view` events, over all sessions, that
\* carry product id p.
ViewCount(p) ==
  Cardinality(UNION { { <<k, i>> : i \in { j \in 1..Len(trackerEvents[k]) :
                                            /\ trackerEvents[k][j].type = "product_view"
                                            /\ trackerEvents[k][j].data.productId = p } } :
                      k \in DOMAIN trackerEvents })

TrackedProducts ==
  {"prod_001", "prod_002", "prod_003", "prod_004", "prod_005", "prod_006",
   "prod_007", "prod_008", "prod_009", "prod_010", "prod_011"}

\* C16: getMetrics().popularProducts lists at most ten product ids, the
\* most viewed ones, in non-increasing order of view count (the number of
\* tracked `product_view` events that carry the id, over all sessions), so
\* that a product with the strictly highest count is first.
C16_PopularByViewCount ==
  [][call'.op = "getMetrics" =>
       LET popular == call'.value.popularProducts
           count == [p \in TrackedProducts |-> ViewCount(p)]
           viewed == {p \in TrackedProducts : count[p] > 0}
       IN /\ Len(popular) = Min(10, Cardinality(viewed))
          /\ \A i \in 1..Len(popular) : popular[i] \in viewed
          /\ \A i, j \in 1..Len(popular) :
               i < j => /\ popular[i] # popular[j]
                        /\ count[popular[i]] >= count[popular[j]]
          /\ \A p \in viewed :
               Includes(popular, p)
                 \/ \A i \in 1..Len(popular) : count[popular[i]] >= count[p]
          /\ \A p \in viewed :
               (\A q \in viewed \ {p} : count[p] > count[q])
                 => popular[1] = p]_vars

\* The metrics have just been read from a tracker that has seen views of
\* eleven products, one of them twice: that one is first of ten.
C16_Witness ==
  /\ call.op = "getMetrics"
  /\ Len(systemStats.productViews) = 11
  /\ Len(call.value.popularProducts) = 10
  /\ call.value.popularProducts[1] = "prod_005"
  /\ ViewCount("prod_005") = 2

\* The timestamps of a log.
Timestamps(events) == {events[i].timestamp : i \in 1..Len(events)}

\* The time between the earliest and the latest event of a log.
Span(events) ==
  LET ts == Timestamps(events)
  IN (CHOOSE t \in ts : \A u \in ts : u <= t) - (CHOOSE t \in ts : \A u \in ts : t <= u)

\* The claimed score of a non-empty log, in units of 1 / unit: the flag
\* weights, the time bonus min(span / 5 min, 0.2) and the rate bonus
\* min(events per minute * 0.05, 0.15), capped at 1.
ClaimedScore(events, unit) ==
  LET flags == (IF OfType(events, "product_view") # {} THEN unit \div 10 ELSE 0)
               + (IF OfType(events, "product_detail") # {} THEN unit \div 5 ELSE 0)
               + (IF OfType(events, "like") # {} THEN (3 * unit) \div 10 ELSE 0)
               + (IF OfType(events, "virtual_try") # {} THEN unit \div 4 ELSE 0)
               + (IF OfType(events, "add_to_cart") # {} THEN (2 * unit) \div 5 ELSE 0)
      span == Span(events)
      time == IF span >= 60000 THEN unit \div 5 ELSE (span * unit) \div 300000
      rate == IF span = 0 \/ Len(events) * 20000 >= span
              THEN (3 * unit) \div 20
              ELSE (Len(events) * 3000 * unit) \div span
  IN Min(unit, flags + time + rate)

\* C17: for every non-empty log, whatever its timestamps (one event, or
\* events that share a timestamp, so that viewTime = 0), getInsights returns
\* a conversionLikelihood that is a number between 0 and 1 and equals
\* min(1, flag weights + time bonus + rate bonus).
C17_ConversionLikelihood ==
  [][\A k \in EngineIds :
       (call'.op = "getInsights" /\ call'.sid = k /\ TrackerLog(k) # <<>>) =>
         LET score == call'.value.conversionLikelihood
             \* the scores of the tracked logs are whole numbers of 1 / 6600
             unit == 20 * 330
         IN /\ score.den > 0
            /\ 0 <= score.num /\ score.num <= score.den
            /\ score.num * unit = ClaimedScore(TrackerLog(k), unit) * score.den]_vars

\* The insights have just been read from a log of two events with one
\* timestamp: viewTime is 0 and the score is 0.1 + 0.3 + 0.15.
C17_Witness ==
  /\ call.op = "getInsights"
  /\ Len(TrackerLog(call.sid)) = 2
  /\ call.value.viewTime = 0
  /\ call.value.conversionLikelihood = [num |-> 11, den |-> 20]

\* ----------------------------------------------- claims on SpecCatalog
\* The catalog entry with this id, and its place in the catalog.
CatalogIndex(id) == CHOOSE i \in 1..Len(SAMPLE_PRODUCTS) : SAMPLE_PRODUCTS[i].id = id

CatalogProduct(id) == SAMPLE_PRODUCTS[CatalogIndex(id)]

\* The filter object of a call (none when the argument is left out).
FiltersOf(arg) == IF arg = <<>> THEN <<>> ELSE arg[1]

\* What the key `key` of a filter object asks of a product.
Satisfies(product, filters, key) ==
  CASE key = "category" -> product.category = filters.category
    [] key = "brand" -> product.brand = filters.brand
    [] key = "priceRange" -> /\ filters.priceRange.min <= product.price
                             /\ product.price <= filters.priceRange.max
    [] key = "tags" -> \E i \in 1..Len(filters.tags) :
                         \E j \in 1..Len(product.tags) : product.tags[j] = filters.tags[i]

\* The keys of a filter object that restrict the result: every key it has,
\* but a category or brand that is the empty string and an empty tag list.
Restricting(filters) ==
  { key \in DOMAIN filters :
      CASE key \in {"category", "brand"} -> filters[key] # ""
        [] key = "tags" -> Len(filters[key]) > 0
        [] OTHER -> TRUE }

\* `result` lists, in catalog order, exactly the catalog products that
\* satisfy what each of `keys` asks.
ExactlyThose(result, filters, keys) ==
  /\ {result[i] : i \in 1..Len(result)}
       = {id \in CatalogIds : \A key \in keys : Satisfies(CatalogProduct(id), filters, key)}
  /\ \A i, j \in 1..Len(result) :
       i < j => CatalogIndex(result[i]) < CatalogIndex(result[j])

\* C19 as stated: getProducts(filters) never fails and returns, in catalog
\* order, exactly the catalog products that satisfy the predicate of every
\* key the filter object supplies (category equality, brand equality,
\* min <= price <= max, at least one filter tag among the product's tags),
\* the empty sequence when there is none.
C19_EverySuppliedPredicate ==
  [][call'.op = "getProducts" =>
       \A arg \in FilterArgs :
         GetProducts(arg) =>
           /\ call'.status = "ok"
           /\ ExactlyThose(call'.value, FiltersOf(arg), DOMAIN FiltersOf(arg))]_vars

\* C19, amended: getProducts(filters) never fails and returns, in catalog
\* order, exactly the catalog products that satisfy the predicate of every
\* restricting key: a supplied category or brand restricts unless it is the
\* empty string, supplied tags restrict unless the list is empty, a supplied
\* price range always restricts (both ends included). The result is the empty
\* sequence when no product satisfies them.
C19_EveryRestrictingPredicate ==
  [][call'.op = "getProducts" =>
       \A arg \in FilterArgs :
         GetProducts(arg) =>
           /\ call'.status = "ok"
           /\ ExactlyThose(call'.value, FiltersOf(arg), Restricting(FiltersOf(arg)))]_vars

\* getProducts has just returned the products priced 320, 450 and 520, in
\* catalog order: the answer to the price range 320..520 and to no other
\* filter object that is passed.
C19_Witness ==
  /\ call.op = "getProducts" /\ call.status = "ok"
  /\ call.value = <<"prod_001", "prod_003", "prod_004">>
  /\ \A arg \in FilterArgs :
       GetProductsOf(arg) = call.value
         <=> arg = <<OneKey("priceRange", PriceRange(320, 520))>>

\* ----------------------------------------------- claims on SpecContact
\* The times at which the endpoint admitted a submission of this address.
AdmissionsOf(ip) ==
  LET RECURSIVE Times(_)
      Times(n) == IF n = 0 THEN <<>>
                  ELSE IF admitted[n][1] = ip
                       THEN Append(Times(n - 1), admitted[n][2])
                       ELSE Times(n - 1)
  IN Times(Len(admitted))

\* The step is a POST from this address.
Posting(ip) ==
  /\ call'.op = "POST" /\ call'.sid = ip
  /\ Len(admitted') + calls' = Len(admitted) + calls + 1

\* C21: per client address, no 15-minute window holds more than 3
\* admissions (of any 4 admissions the last comes 15 minutes or more after
\* the first); an attempt that finds 3 admissions inside the window is
\* answered 429 and is not recorded; a POST leaves the other addresses'
\* records alone, and an attempt made 15 minutes or more after the oldest
\* recorded admission is admitted.
C21_ThreePerWindow ==
  /\ [](\A ip \in ClientIps :
          LET times == AdmissionsOf(ip)
          IN \A i \in 1..Len(times) :
               i + MaxAttempts <= Len(times)
                 => times[i + MaxAttempts] - times[i] >= WindowMs)
  /\ [][\A ip \in ClientIps :
          Posting(ip) =>
            LET times == AdmissionsOf(ip)
                inside == {i \in 1..Len(times) : now - times[i] < WindowMs}
                recorded == IF ip \in DOMAIN submissions THEN submissions[ip] ELSE <<>>
            IN /\ Cardinality(inside) >= MaxAttempts
                    => /\ call'.status = "429"
                       /\ admitted' = admitted
                       /\ Len(submissions'[ip]) <= Len(recorded)
                       /\ Occurrences(submissions'[ip], now) = Occurrences(recorded, now)
               /\ Cardinality(inside) < MaxAttempts
                    => /\ call'.status = "admitted"
                       /\ admitted' = Append(admitted, <<ip, now>>)
                       /\ Last(submissions'[ip]) = now
               /\ (recorded # <<>> /\ \A i \in 1..Len(recorded) : now - recorded[i] >= WindowMs)
                    => call'.status = "admitted"
               /\ \A other \in DOMAIN submissions \ {ip} :
                    submissions'[other] = submissions[other]]_vars

\* An address that was admitted three times at once and refused afterwards
\* has just been admitted again, exactly 15 minutes after its first
\* admission, while the other address was admitted in between.
C21_Witness ==
  /\ call.op = "POST" /\ call.status = "admitted" /\ call.sid = "10.0.0.1"
  /\ calls >= 1
  /\ now = WindowMs
  /\ AdmissionsOf("10.0.0.1") = <<0, 0, 0, WindowMs>>
  /\ AdmissionsOf("unknown") # <<>>

\* ---------------------------------------------- claims on SpecInsights
\* The weights, in twentieths, of the kinds of action a session's engine log
\* shows (the engine logs an event for every successful product action).
ActionWeights(events) ==
  (IF OfType(events, "view") # {} THEN 2 ELSE 0)
  + (IF OfType(events, "like") # {} THEN 6 ELSE 0)
  + (IF OfType(events, "try-virtual") # {} THEN 5 ELSE 0)
  + (IF OfType(events, "add-to-cart") # {} THEN 8 ELSE 0)

\* C22 (as claimed): the insights of a session count the weight of every
\* kind of action performed on it (view 0.1, like 0.3, virtual try 0.25,
\* cart add 0.4), so that conversionLikelihood is at least the smaller of 1
\* and the sum of those weights, and interactionCount is the number of
\* likeProduct and addToCart actions performed.
C22_ActionsCountInInsights ==
  [][\A k \in EngineIds :
       (call'.op = "getInsights" /\ call'.sid = k /\ k \in DOMAIN sessions) =>
         LET events == sessions[k].events
             score == call'.value.conversionLikelihood
         IN /\ score.num * 20 >= Min(20, ActionWeights(events)) * score.den
            /\ call'.value.interactionCount
                 = Cardinality(OfType(events, "like"))
                   + Cardinality(OfType(events, "add-to-cart"))]_vars

\* ------------------------------------------------ claims on SpecFlight
\* The quantity a session's cart holds of a product.
CartQuantity(session, p) ==
  LET entries == {i \in 1..Len(session.cartItems) : session.cartItems[i].productId = p}
      RECURSIVE Sum(_)
      Sum(S) == IF S = {} THEN 0
                ELSE LET i == CHOOSE j \in S : TRUE
                     IN session.cartItems[i].quantity + Sum(S \ {i})
  IN Sum(entries)

\* The analytics events of one type that session k tracked for product p:
\* one for every completed call of the method on k with p.
Completed(k, type, p) ==
  Cardinality({i \in 1..Len(TrackerLog(k)) :
                 /\ TrackerLog(k)[i].type = type
                 /\ TrackerLog(k)[i].data.productId = p})

EventTypesOf(events) == [i \in 1..Len(events) |-> events[i].type]

\* C23: when calls on one session have been in flight at once and all have
\* completed, no update is lost: the cart holds one entry for p whose
\* quantity is the number n of addToCart(S, p) calls, favorites holds q
\* exactly once when likeProduct(S, q) was called, and the event log holds
\* the events of all the calls.
C23_NoLostUpdate ==
  pending = <<>> =>
    \A k \in DOMAIN sessions :
      /\ \A p \in FlightProductIds :
           /\ CartQuantity(sessions[k], p) = Completed(k, "add_to_cart", p)
           /\ Cardinality({i \in 1..Len(sessions[k].cartItems) :
                              sessions[k].cartItems[i].productId = p}) <= 1
           /\ Occurrences(sessions[k].favorites, p)
                = (IF Completed(k, "like_product", p) > 0 THEN 1 ELSE 0)
           /\ \A op \in FlightOps :
                Cardinality({i \in OfType(sessions[k].events, EventTypeOf(op)) :
                               sessions[k].events[i].productId = p})
                  = Completed(k, TrackedTypeOf(op), p)

\* Two addToCart calls and a likeProduct call on one session have completed
\* after running interleaved (the tracker saw the like first, the engine saw
\* it last): the cart holds quantity 2 and favorites the liked product once.
C23_Witness ==
  /\ pending = <<>>
  /\ EngineId(1) \in DOMAIN sessions
  /\ EventTypesOf(sessions[EngineId(1)].events) = <<"add-to-cart", "add-to-cart", "like">>
  /\ EventTypesOf(TrackerLog(EngineId(1)))
       = <<"session_start", "like_product", "add_to_cart", "add_to_cart">>
  /\ CartQuantity(sessions[EngineId(1)], "prod_001") = 2
  /\ sessions[EngineId(1)].favorites = <<"prod_004">>

\* The call that is in flight under the number id has just run its module
\* call `step` (a call that is invoked runs its first one at once).
Ran(id, step) ==
  LET before == IF id \in DOMAIN pending THEN pending[id].done ELSE <<>>
  IN /\ id \in DOMAIN pending \/ (calls' = calls + 1 /\ id = calls + 1)
     /\ \/ /\ id \in DOMAIN pending'
           /\ pending'[id].done = Append(before, step)
        \/ /\ id \notin DOMAIN pending'
           /\ call'.op \in FlightOps
           /\ call'.steps = Append(before, step)

\* The session and the product of the call that runs in this step.
RunningCall(id) ==
  IF id \in DOMAIN pending THEN pending[id]
  ELSE IF id \in DOMAIN pending' THEN pending'[id]
  ELSE [op |-> call'.op, sid |-> call'.sid, productId |-> NoProduct, done |-> <<>>]

\* C24: with no orchestrator call in flight, a session in virtual-try has a
\* catalog product as its currentProduct; a session is in virtual-try
\* without a currentProduct only while a startVirtualTryOn call on it stands
\* between its recordEvent and its updateState; and currentProduct changes
\* only there: recordEvent of a startVirtualTryOn clears it and updateState
\* sets it to the product of its call, so that after interleaved calls it is
\* the product of the call whose updateState ran last.
C24_TryOnProductSet ==
  /\ [](\A k \in DOMAIN sessions :
          (sessions[k].experienceMode = "virtual-try"
             /\ sessions[k].currentProduct \notin CatalogIds)
            => /\ sessions[k].currentProduct = NoProduct
               /\ \E id \in DOMAIN pending :
                    /\ pending[id].op = "startVirtualTryOn"
                    /\ pending[id].sid = k
                    /\ Last(pending[id].done) = "recordEvent")
  /\ [][\A k \in DOMAIN sessions :
          /\ \A id \in 1..MaxCalls :
               (Ran(id, "updateState") /\ RunningCall(id).sid = k)
                 => /\ sessions'[k].currentProduct = RunningCall(id).productId
                    /\ sessions'[k].experienceMode = "virtual-try"
          /\ sessions'[k].currentProduct # sessions[k].currentProduct
               => \E id \in 1..MaxCalls :
                    /\ RunningCall(id).op = "startVirtualTryOn"
                    /\ RunningCall(id).sid = k
                    /\ \/ Ran(id, "updateState")
                       \/ Ran(id, "recordEvent") /\ sessions'[k].currentProduct = NoProduct]_vars

\* Two startVirtualTryOn calls on one session have completed: the engine
\* recorded the event of the call for prod_004 last, but that call's
\* updateState ran first, and currentProduct is prod_001.
C24_Witness ==
  /\ pending = <<>>
  /\ EngineId(1) \in DOMAIN sessions
  /\ EventTypesOf(sessions[EngineId(1)].events) = <<"try-virtual", "try-virtual">>
  /\ sessions[EngineId(1)].events[1].productId = "prod_001"
  /\ sessions[EngineId(1)].events[2].productId = "prod_004"
  /\ sessions[EngineId(1)].experienceMode = "virtual-try"
  /\ sessions[EngineId(1)].currentProduct = "prod_001"

\* C25: the experienceMode of a session that only the orchestrator drives
\* is always browse or virtual-try (never detailed, never checkout), and a
\* session in virtual-try stays in virtual-try whatever the orchestrator
\* does next.
C25_BrowseThenVirtualTry ==
  /\ [](\A k \in DOMAIN sessions :
          sessions[k].experienceMode \in {"browse", "virtual-try"})
  /\ [][\A k \in DOMAIN sessions :
          sessions[k].experienceMode = "virtual-try"
            => sessions'[k].experienceMode = "virtual-try"]_vars

\* A session is still in virtual-try after a startVirtualTryOn and then a
\* viewProduct, a likeProduct or an addToCart call on it have completed.
C25_Witness ==
  /\ pending = <<>>
  /\ call.op \in {"viewProduct", "likeProduct", "addToCart"} /\ call.status = "ok"
  /\ call.sid \in DOMAIN sessions
  /\ sessions[call.sid].experienceMode = "virtual-try"
  /\ EventTypesOf(sessions[call.sid].events)[1] = "try-virtual"
  /\ Len(sessions[call.sid].events) = 3

\* -------------------------------------------------- claims on SpecShop
\* C26: the viewedProducts of a session that only the orchestrator drives
\* hold ids of catalog products only (viewProduct with an id the catalog
\* does not have leaves the session as it is), so there are at most 4 of
\* them and getPersonalization never suggests "personalized-collection".
C26_ViewedFromCatalog ==
  /\ [](\A k \in DOMAIN sessions :
          /\ \A i \in 1..Len(sessions[k].viewedProducts) :
               sessions[k].viewedProducts[i] \in CatalogIds
          /\ Len(sessions[k].viewedProducts) <= Len(SAMPLE_PRODUCTS))
  /\ [](call.op = "getPersonalizedExperience" /\ call.status = "ok"
          => ~Includes(call.value.suggestedExperiences, "personalized-collection"))
  /\ [][\A k \in EngineIds :
          Calling("viewProduct", k) =>
            \A p \in ShopProductIds \ CatalogIds :
              ViewProduct(k, p) => UNCHANGED <<sessions, trackerEvents, systemStats>>]_vars

\* The personalization has just been read of a session that has viewed all
\* four catalog products and has been asked to view two more ids.
C26_Witness ==
  /\ call.op = "getPersonalizedExperience" /\ call.status = "ok"
  /\ calls = MaxCalls
  /\ Len(sessions[call.sid].viewedProducts) = Len(SAMPLE_PRODUCTS)
  /\ Len(sessions[call.sid].events) = Len(SAMPLE_PRODUCTS)

\* ----------------------------------------- further claims on SpecTracker
\* C27 (as claimed): getInsights and getMetrics leave every per-session log
\* as it is, the order of its events included, whatever the timestamps of
\* the tracked events, so that a log is always in the order in which track
\* appended its events.
C27_ReadsLeaveLogs ==
  [][call'.op \in {"getInsights", "getMetrics"} => trackerEvents' = trackerEvents]_vars

\* -------------------------------------------- further claims on SpecShop
\* C28 (as claimed): every product id in the viewedProducts, the favorites
\* and the cartItems of a session that only the orchestrator drives is the
\* id of a catalog product.
C28_ListsFromCatalog ==
  \A k \in DOMAIN sessions :
    /\ \A i \in 1..Len(sessions[k].viewedProducts) :
         sessions[k].viewedProducts[i] \in CatalogIds
    /\ \A i \in 1..Len(sessions[k].favorites) :
         sessions[k].favorites[i] \in CatalogIds
    /\ \A i \in 1..Len(sessions[k].cartItems) :
         sessions[k].cartItems[i].productId \in CatalogIds

\* ------------------------------------------------ claims on SpecActive
\* C29: getMetrics().activeUsers is the number of distinct identifiers that
\* were passed to track and not cleared by clearSessionData since (those that
\* have a log); no step but clearSessionData takes an identifier out of the
\* set, neither a read nor an expiry sweep of the engine or of the session
\* store; and an identifier the engine does not know is counted when
\* browseProducts tracks it.
C29_ActiveUsersCounted ==
  /\ [](systemStats.activeUsers = DOMAIN trackerEvents)
  /\ [](call.op = "getMetrics"
          => call.value.activeUsers = Cardinality(DOMAIN trackerEvents))
  /\ [][call'.op # "clearSessionData"
          => systemStats.activeUsers \subseteq systemStats'.activeUsers]_vars
  /\ [][\A k \in EngineIds :
          Calling("browseProducts", k) => k \in systemStats'.activeUsers]_vars

\* The metrics count two active users after the engine's only session has
\* been swept: that session's identifier, and one the engine never created,
\* which browseProducts tracked.
C29_Witness ==
  /\ call.op = "getMetrics"
  /\ call.value.activeUsers = 2
  /\ engineSeq = 1 /\ sessions = <<>>
  /\ systemStats.activeUsers = {EngineId(1), EngineId(MaxSessions + 1)}


\* ------------------------------------------------------------ System health
\* The modules performHealthCheck probes, in the order of the literal.
HealthModules ==
  <<"productCatalog", "experienceEngine", "sessionManager", "visualRenderer",
    "analyticsTracker">>

\* Whether the probe of a module throws.  The catalog's getProducts, the
\* engine's createSession and getState and the session manager's create and
\* get have no throwing path for the arguments the probes pass; the two
\* remaining modules are not called at all.
ProbeThrows(moduleName) ==
  CASE moduleName = "productCatalog" -> FALSE
    [] moduleName = "experienceEngine" -> FALSE
    [] moduleName = "sessionManager" -> FALSE
    [] OTHER -> FALSE

\* checkModuleHealth: 'healthy' from every branch of the switch, 'unhealthy'
\* from the catch.
CheckModuleHealth(moduleName) ==
  IF ProbeThrows(moduleName) THEN "unhealthy" ELSE "healthy"

\* The overall status computed from the module states.
OverallHealth(modules) ==
  IF \E m \in DOMAIN modules : modules[m] = "unhealthy" THEN "unhealthy"
  ELSE IF \E m \in DOMAIN modules : modules[m] = "degraded" THEN "degraded"
  ELSE "healthy"

SystemHealth(t) ==
  LET modules == [m \in {HealthModules[i] : i \in DOMAIN HealthModules}
                    |-> CheckModuleHealth(m)]
  IN [timestamp |-> t, modules |-> modules, overall |-> OverallHealth(modules)]

\* A health check that deletes the session and the record its probes created.
PerformHealthCheck_RemovesProbes ==
  /\ engineSeq < MaxSessions
  /\ storeSeq < MaxSessions
  /\ engineSeq' = engineSeq + 1
  /\ storeSeq' = storeSeq + 1
  /\ sessions' = sessions
  /\ store' = store
  /\ call' = Performed("performHealthCheck", <<>>, "ok", SystemHealth(now),
                       <<"getProducts", "createSession", "getState", "create", "get">>)
  /\ UNCHANGED <<now, requestVars, trackerVars, calls>>

\* performHealthCheck: the engine probe creates a session and reads it, the
\* session manager probe creates a record and reads it, which refreshes the
\* record's lastActivity; nothing is deleted afterwards.
PerformHealthCheck ==
  /\ engineSeq < MaxSessions
  /\ storeSeq < MaxSessions
  /\ LET testSession == EngineId(engineSeq + 1)
         testSessionId == StoreId(storeSeq + 1)
         created == (testSessionId :> SessionData(testSessionId, now)) @@ store
     IN /\ sessions' = (testSession :> InitialState(testSession, now)) @@ sessions
        /\ store' = [created EXCEPT ![testSessionId].lastActivity = now]
  /\ engineSeq' = engineSeq + 1
  /\ storeSeq' = storeSeq + 1
  /\ call' = Performed("performHealthCheck", <<>>, "ok", SystemHealth(now),
                       <<"getProducts", "createSession", "getState", "create", "get">>)
  /\ UNCHANGED <<now, requestVars, trackerVars, calls>>

NextHealth ==
  \/ PerformHealthCheck
  \/ CreateShoppingSession
  \/ SessionCreate
  \/ \E k \in PersonalIds, p \in SystemProductIds : ViewProduct(k, p)
  \/ \E k \in PersonalIds, p \in SystemProductIds : AddToCart(k, p)
  \/ \E k \in StoreIds : SessionGet(k)
  \/ Tick

SpecHealth == Init /\ [][NextHealth]_vars

====
